---- MODULE Spec2Model ----
(***************************************************************************)
(* The MCP JSON-RPC server of clickup_mcp_server.py: envelope validation   *)
(* (MCPRequest), the dispatcher mcp_endpoint, the tool catalog             *)
(* get_tools_list, the tool executor execute_tool with its ten tools, and  *)
(* the REST client ClickUpAPI talking to a remote task tracker.            *)
(* Further down, the interactive programs clickup_app.py, main.py and      *)
(* clickup_agent.py: their start, select_from_list, the menus that lead to  *)
(* the delete and update operations, and those operations.                 *)
(*                                                                         *)
(* A request is handled in steps that are cut at the remote calls: one     *)
(* step runs the Python code from one blocking HTTP call to the next.      *)
(* The remote tracker is an oracle fixed in the initial state (world): it  *)
(* answers every call deterministically, so that "the same remote          *)
(* responses" is a meaningful phrase.                                      *)
(*                                                                         *)
(* Encoding of Python/JSON values:                                         *)
(*   None / absent      <<>>              a value v that may be None <<v>> *)
(*   dict               function (record) over its keys                    *)
(*   list               sequence                                           *)
(*   names and queries  sequences of one-character strings, so that        *)
(*                      lower() and the substring test can be computed     *)
(*   other strings      strings                                            *)
(*   URL / message      flat sequence of string pieces (concatenation)     *)
(***************************************************************************)
EXTENDS Integers, Sequences, FiniteSets, TLC

VARIABLES
  environ,      \* os.environ after load_dotenv()
  world,        \* the remote tracker: which endpoint fails, and its data
  clickup_api,  \* the module-level ClickUpAPI object shared by all requests
  active,       \* the request slots the hosting server runs
  hs,           \* per slot: the handling of one request (position + locals)
  errSeen,      \* history: some earlier request ended in an RPC error
  served,       \* history: how many requests the server has taken so far
  initResults,  \* history: the result payloads sent in answer to initialize
  cli           \* the interactive program, when one runs instead of the server

vars ==
  <<environ, world, clickup_api, active, hs, errSeen, served, initResults, cli>>

----------------------------------------------------------------------------
(* Python values *)

None == <<>>
Some(v) == <<v>>
IsNone(o) == Len(o) = 0
IsSome(o) == Len(o) = 1

\* dict.get(k): the value, or None when the key is absent
DictGet(d, k) == IF k \in DOMAIN d THEN Some(d[k]) ELSE None

\* the dict d without key k (what dict.pop leaves behind)
DictWithout(d, k) == [x \in (DOMAIN d) \ {k} |-> d[x]]

\* f"{v}" of a value that may be None
Fmt(o) == IF IsNone(o) THEN "None" ELSE o[1]

\* str.lower() on the alphabet the model's names are written in
UpperCase ==
  <<"A", "B", "C", "D", "E", "F", "G", "H", "I", "J", "K", "L", "M", "N",
     "O", "P", "Q", "R", "S", "T", "U", "V", "W", "X", "Y", "Z">>
LowerCase ==
  <<"a", "b", "c", "d", "e", "f", "g", "h", "i", "j", "k", "l", "m", "n",
     "o", "p", "q", "r", "s", "t", "u", "v", "w", "x", "y", "z">>
LowerChar(c) ==
  IF \E i \in 1..26 : UpperCase[i] = c
    THEN LowerCase[CHOOSE i \in 1..26 : UpperCase[i] = c]
    ELSE c

Lower(s) == [i \in 1..Len(s) |-> LowerChar(s[i])]

\* str.strip() on a text
RECURSIVE LStrip(_)
LStrip(t) == IF t # <<>> /\ Head(t) = " " THEN LStrip(Tail(t)) ELSE t
RECURSIVE RStrip(_)
RStrip(t) ==
  IF t # <<>> /\ t[Len(t)] = " " THEN RStrip(SubSeq(t, 1, Len(t) - 1)) ELSE t
Strip(t) == RStrip(LStrip(t))

\* the pieces of a text between the separator characters (str.split(sep))
RECURSIVE Split(_, _)
Split(t, sep) ==
  IF \A i \in 1..Len(t) : t[i] # sep
    THEN << t >>
    ELSE LET i == CHOOSE k \in 1..Len(t) :
                    t[k] = sep /\ \A j \in 1..(k - 1) : t[j] # sep
         IN << SubSeq(t, 1, i - 1) >> \o Split(SubSeq(t, i + 1, Len(t)), sep)

DecimalDigits == <<"0", "1", "2", "3", "4", "5", "6", "7", "8", "9">>
IsDecimal(c) == \E d \in 1..10 : DecimalDigits[d] = c
DigitValue(c) == (CHOOSE d \in 1..10 : DecimalDigits[d] = c) - 1

\* the value of a run of decimal digits
RECURSIVE DecimalValue(_)
DecimalValue(t) ==
  IF t = <<>> THEN 0
  ELSE 10 * DecimalValue(SubSeq(t, 1, Len(t) - 1)) + DigitValue(t[Len(t)])

\* str.isdigit(): true of the decimal digits and also of digit characters
\* that int() does not accept; "sup2" stands for the character U+00B2
isdigit(t) ==
  /\ t # <<>>
  /\ \A i \in 1..Len(t) : IsDecimal(t[i]) \/ t[i] = "sup2"

\* int(text): Some(n), or None where Python raises ValueError. Surrounding
\* blanks, one sign and single underscores between digits are accepted.
int(t) ==
  LET s == Strip(t)
      signed == s # <<>> /\ s[1] \in {"+", "-"}
      body == IF signed THEN Tail(s) ELSE s
      wellFormed ==
        /\ body # <<>>
        /\ \A i \in 1..Len(body) :
             \/ IsDecimal(body[i])
             \/ /\ body[i] = "_"
                /\ 1 < i /\ i < Len(body)
                /\ IsDecimal(body[i - 1]) /\ IsDecimal(body[i + 1])
      magnitude == DecimalValue(SelectSeq(body, IsDecimal))
  IN IF ~wellFormed THEN None
     ELSE IF signed /\ s[1] = "-" THEN Some(0 - magnitude)
     ELSE Some(magnitude)

\* a field of a date or time: lo..hi digits, value in min..max
NumField(p, lo, hi, min, max) ==
  /\ Len(p) \in lo..hi
  /\ \A i \in 1..Len(p) : IsDecimal(p[i])
  /\ DecimalValue(p) \in min..max

DaysInMonth(y, m) ==
  IF m = 2
    THEN IF (y % 4 = 0 /\ y % 100 # 0) \/ y % 400 = 0 THEN 29 ELSE 28
  ELSE IF m \in {4, 6, 9, 11} THEN 30 ELSE 31

\* datetime.strptime(text, "%Y-%m-%d"): Some(datetime), None for ValueError
strptime_date(t) ==
  LET p == Split(t, "-") IN
  IF /\ Len(p) = 3
     /\ NumField(p[1], 4, 4, 1, 9999)
     /\ NumField(p[2], 1, 2, 1, 12)
     /\ NumField(p[3], 1, 2, 1, 31)
     /\ DecimalValue(p[3]) <= DaysInMonth(DecimalValue(p[1]), DecimalValue(p[2]))
    THEN Some([year |-> DecimalValue(p[1]), month |-> DecimalValue(p[2]),
               day |-> DecimalValue(p[3]), hour |-> 0, minute |-> 0])
    ELSE None

\* datetime.strptime(text, "%Y-%m-%d %H:%M")
strptime_datetime(t) ==
  LET w == SelectSeq(Split(t, " "), LAMBDA x : x # <<>>)
      d == strptime_date(w[1])
      hm == Split(w[2], ":")
  IN
  IF /\ Len(w) = 2
     /\ t[1] # " " /\ t[Len(t)] # " "
     /\ IsSome(d)
     /\ Len(hm) = 2
     /\ NumField(hm[1], 1, 2, 0, 23)
     /\ NumField(hm[2], 1, 2, 0, 59)
    THEN Some([d[1] EXCEPT !.hour = DecimalValue(hm[1]),
                           !.minute = DecimalValue(hm[2])])
    ELSE None

\* datetime.timestamp() of a naive datetime, the local zone being UTC, in
\* minutes since the epoch: Some(minutes), or None where it raises
\* ValueError ("year 0 is out of range": any time of 0001-01-01, as CPython
\* 3.11 on Linux does)
timestamp(dt) ==
  IF dt.year = 1 /\ dt.month = 1 /\ dt.day = 1 THEN None
  ELSE LET y == IF dt.month <= 2 THEN dt.year - 1 ELSE dt.year
           era == y \div 400
           yoe == y - era * 400
           mp == (dt.month + 9) % 12
           doy == (153 * mp + 2) \div 5 + dt.day - 1
           doe == yoe * 365 + yoe \div 4 - yoe \div 100 + doy
           days == era * 146097 + doe - 719468
       IN Some(days * 1440 + dt.hour * 60 + dt.minute)

\* Python's `needle in hay` on strings
StrIn(needle, hay) ==
  \E i \in 0..(Len(hay) - Len(needle)) :
    \A j \in 1..Len(needle) : hay[i + j] = needle[j]

----------------------------------------------------------------------------
(* Exceptions: str(e) is the message the dispatcher reports *)

Exc(type, msg) == [type |-> type, msg |-> msg]
NoExc == Exc("", <<>>)

ExcStr(e) == e.msg

KeyError(k) == Exc("KeyError", <<"'", k, "'">>)
IndexError == Exc("IndexError", <<"list index out of range">>)
ValueError(msg) == Exc("ValueError", msg)
\* a method or subscript used on a value of Python type t that is not a dict
AttributeError(t, attr) ==
  Exc("AttributeError", <<"'", t, "' object has no attribute '", attr, "'">>)
TypeErrorSubscript(t) ==
  Exc("TypeError",
      IF t = "str" THEN <<"string indices must be integers">>
      ELSE <<"'", t, "' object is not subscriptable">>)

----------------------------------------------------------------------------
(* The remote tracker *)

ValidToken == "pk_valid"
\* the token written into clickup_app.py and main.py (its text shortened)
API_TOKEN == "pk_260557758"
BaseUrl == "https://api.clickup.com/api/v2"
BaseUrlV3 == "https://api.clickup.com/api/v3"

Teams ==
  << [id |-> "T1", name |-> <<"A", "b">>],
     [id |-> "T2", name |-> <<"x">>] >>

SpacesOf(team_id) ==
  CASE team_id = "T1" -> << [id |-> "S1", name |-> <<"F", "i">>],
                            [id |-> "S2", name |-> <<"b">>] >>
    [] team_id = "T2" -> << [id |-> "S9", name |-> <<"x">>] >>
    [] OTHER -> <<>>

ListsOf(space_id) ==
  CASE space_id = "S1" -> << [id |-> "L1", name |-> <<"F", "i", "x">>],
                             [id |-> "L2", name |-> <<"b", "o", "x">>] >>
    [] space_id = "S2" -> << [id |-> "L3", name |-> <<"I", "F">>] >>
    [] space_id = "S9" -> << [id |-> "L9", name |-> <<"f", "i">>] >>
    [] OTHER -> <<>>

TasksOf(list_id) ==
  CASE list_id = "L1" -> << [id |-> "K1", name |-> <<"f", "I", "x">>],
                            [id |-> "K2", name |-> <<"B", "a", "b">>] >>
    [] list_id = "L2" -> <<>>
    [] list_id = "L3" -> << [id |-> "K3", name |-> <<"x", "i">>] >>
    [] list_id = "L9" -> << [id |-> "K9", name |-> <<"f", "i">>] >>
    [] OTHER -> <<>>

TeamIds == {"T1", "T2"}
SpaceIds == {"S1", "S2", "S9"}
ListIds == {"L1", "L2", "L3", "L9"}
TaskIds == {"K1", "K2", "K3", "K9"}

\* the endpoints as the f-strings build them: pieces to be concatenated
EpTeam == <<"team">>
EpSpaces(team_id) == <<"team/", team_id, "/space?archived=false">>
EpLists(space_id) == <<"space/", space_id, "/list?archived=false">>
EpTasks(list_id) == <<"list/", list_id, "/task?archived=false">>
EpCreateTask(list_id) == <<"list/", list_id, "/task">>
EpTask(task_id) == <<"task/", task_id>>
EpComment(task_id) == <<"task/", task_id, "/comment">>
EpMembers(team_id) == <<"team/", team_id>>
EpCreateList(space_id) == <<"space/", space_id, "/list">>
EpUser == <<"user">>
EpList(list_id) == <<"list/", list_id>>
EpGoals(team_id) == <<"team/", team_id, "/goal">>
EpGoal(goal_id) == <<"goal/", goal_id>>
EpDocs(workspace_id) ==
  <<"workspaces/", workspace_id, "/docs?deleted=false&archived=false&limit=50">>
EpDoc(workspace_id, doc_id) == <<"workspaces/", workspace_id, "/docs/", doc_id>>
EpPage(workspace_id, doc_id, page_id) ==
  <<"workspaces/", workspace_id, "/docs/", doc_id, "/pages/", page_id>>

\* what the tracker holds besides the task hierarchy
GoalsOf(team_id) ==
  IF team_id = "T1" THEN << [id |-> "G1", name |-> <<"g">>] >> ELSE <<>>
DocsOf(workspace_id) ==
  IF workspace_id = "T1"
    THEN << [id |-> "D1", name |-> <<"d">>], [id |-> "D2", name |-> <<"e">>] >>
    ELSE <<>>
PagesOf(doc_id) ==
  IF doc_id = "D1" THEN << [id |-> "P1", name |-> <<"p">>] >> ELSE <<>>

Url(base_url, endpoint) == <<base_url, "/">> \o endpoint

HTTPError(status, url) ==
  Exc("HTTPError", <<status, " for url: ">> \o url)
ConnectionError ==
  Exc("ConnectionError", <<"Max retries exceeded">>)
JSONDecodeError ==
  Exc("JSONDecodeError", <<"Expecting value: line 1 column 1 (char 0)">>)

Ok(doc) == [ok |-> TRUE, doc |-> doc, exc |-> NoExc]
Failed(exc) == [ok |-> FALSE, doc |-> <<>>, exc |-> exc]

\* what the tracker holds at an endpoint, when the call gets through
Resource(verb, e, body) ==
  CASE verb = "GET" /\ e = EpTeam ->
         Ok([teams |-> world.teams])
    [] verb = "GET" /\ Len(e) = 3 /\ e[2] \in TeamIds /\ e = EpSpaces(e[2]) ->
         Ok([spaces |-> SpacesOf(e[2])])
    [] verb = "GET" /\ Len(e) = 3 /\ e[2] \in SpaceIds /\ e = EpLists(e[2]) ->
         Ok([lists |-> ListsOf(e[2])])
    [] verb = "GET" /\ Len(e) = 3 /\ e[2] \in ListIds /\ e = EpTasks(e[2]) ->
         Ok([tasks |-> TasksOf(e[2])])
    [] verb = "GET" /\ Len(e) = 2 /\ e[2] \in TaskIds /\ e = EpTask(e[2]) ->
         Ok([id |-> e[2], name |-> <<"t">>, status |-> [status |-> "open"]])
    [] verb = "GET" /\ Len(e) = 3 /\ e[2] \in TaskIds /\ e = EpComment(e[2]) ->
         Ok([comments |-> << [id |-> "C1", comment_text |-> "hello"] >>])
    [] verb = "GET" /\ Len(e) = 2 /\ e[2] \in TeamIds /\ e = EpMembers(e[2]) ->
         Ok([team |-> [id |-> e[2], members |-> <<"U1", "U2">>]])
    [] verb = "POST" /\ Len(e) = 3 /\ e[2] \in ListIds /\ e = EpCreateTask(e[2]) ->
         Ok([id |-> "K7", list |-> e[2], created |-> body])
    [] verb = "PUT" /\ Len(e) = 2 /\ e[2] \in TaskIds /\ e = EpTask(e[2]) ->
         Ok([id |-> e[2], name |-> <<"t">>, status |-> [status |-> "open"],
             updated |-> body])
    [] verb = "POST" /\ Len(e) = 3 /\ e[2] \in TaskIds /\ e = EpComment(e[2]) ->
         Ok([id |-> "C7", task |-> e[2], created |-> body])
    [] verb = "POST" /\ Len(e) = 3 /\ e[2] \in SpaceIds /\ e = EpCreateList(e[2]) ->
         Ok([id |-> "L7", space |-> e[2], created |-> body])
    [] verb = "GET" /\ e = EpUser ->
         Ok([user |-> [id |-> "U1", username |-> "ann"]])
    [] verb = "DELETE" /\ Len(e) = 2 /\ e[2] \in TaskIds /\ e = EpTask(e[2]) ->
         Ok(<<>>)                       \* 204: no text, the client returns {}
    [] verb \in {"GET", "PUT"} /\ Len(e) = 2 /\ e[2] \in ListIds
         /\ e = EpList(e[2]) ->
         Ok([id |-> e[2], name |-> <<"l">>, updated |-> body])
    [] verb = "GET" /\ Len(e) = 3 /\ e[2] \in TeamIds /\ e = EpGoals(e[2]) ->
         Ok([goals |-> GoalsOf(e[2])])
    [] verb \in {"GET", "PUT"} /\ Len(e) = 2 /\ e[2] = "G1" /\ e = EpGoal(e[2]) ->
         Ok([name |-> <<"g">>, goal |-> [id |-> e[2], name |-> <<"g">>],
             updated |-> body])
    [] verb = "GET" /\ Len(e) = 3 /\ e[2] \in TeamIds /\ e = EpDocs(e[2]) ->
         Ok([docs |-> DocsOf(e[2])])
    [] verb = "GET" /\ Len(e) = 4 /\ e[2] \in TeamIds /\ e[4] \in {"D1", "D2"}
         /\ e = EpDoc(e[2], e[4]) ->
         Ok([id |-> e[4], pages |-> PagesOf(e[4])])
    [] verb = "PUT" /\ Len(e) = 6 /\ e[2] \in TeamIds /\ e[4] = "D1"
         /\ e[6] = "P1" /\ e = EpPage(e[2], e[4], e[6]) ->
         Ok([id |-> e[6], name |-> <<"p">>, updated |-> body])
    [] OTHER ->
         Failed(HTTPError("404 Client Error: Not Found", Url(BaseUrl, e)))

\* the fault the world injects at its failing endpoint
Fault(kind, url) ==
  CASE kind = "http" -> HTTPError("500 Server Error: Internal Server Error", url)
    [] kind = "network" -> ConnectionError
    [] OTHER -> JSONDecodeError

\* requests.get/post/put + raise_for_status + response.json(), as one outcome
Remote(call) ==
  IF call.url[1] \notin {BaseUrl, BaseUrlV3}
    THEN Failed(ConnectionError)
  ELSE IF call.headers.Authorization \notin {ValidToken, API_TOKEN}
    THEN Failed(HTTPError("401 Client Error: Unauthorized", call.url))
  ELSE IF (call.url[1] = BaseUrlV3) # (call.endpoint[1] = "workspaces/")
    THEN Failed(HTTPError("404 Client Error: Not Found", call.url))
  ELSE IF world.failing = Some(call.endpoint)
    THEN IF world.fault = "shape"
           THEN Ok([message |-> "ok"])   \* 200, but not the document expected
           ELSE Failed(Fault(world.fault, call.url))
  ELSE Resource(call.verb, call.endpoint, call.body)

----------------------------------------------------------------------------
(* ClickUpAPI: the REST client *)

\* ClickUpAPI.__init__
ClickUpAPI(api_token) ==
  [ api_token |-> api_token,
    base_url |-> BaseUrl,
    headers |-> [Authorization |-> api_token,
                 ContentType |-> "application/json"] ]

\* the HTTP request that get/post/put send; GET carries no body
HttpCall(api, verb, endpoint, body) ==
  [ verb |-> verb,
    endpoint |-> endpoint,
    url |-> Url(api.base_url, endpoint),
    headers |-> api.headers,
    body |-> body ]

NoBody == <<>>

----------------------------------------------------------------------------
(* The tool catalog: ClickUpMCPTools.get_tools_list *)

Prop(type, description) == [type |-> type, description |-> description]

ToolInfo(name, description, inputSchema) ==
  [name |-> name, description |-> description, inputSchema |-> inputSchema]

Tool_search_workspace ==
  ToolInfo("search_workspace",
    "Search for tasks, lists, folders, and docs across the workspace",
    [type |-> "object",
     properties |-> [query |-> Prop("string", "Search query")],
     required |-> <<"query">>])

Tool_get_workspace_hierarchy ==
  ToolInfo("get_workspace_hierarchy",
    "Get the complete workspace structure with spaces, folders, and lists",
    [type |-> "object", properties |-> <<>>])

Tool_get_workspace_tasks ==
  ToolInfo("get_workspace_tasks",
    "Get all tasks in the workspace with optional filters",
    [type |-> "object",
     properties |-> [space_id |-> Prop("string", "Filter by space ID"),
                     list_id |-> Prop("string", "Filter by list ID"),
                     assignee |-> Prop("string", "Filter by assignee ID")]])

Tool_create_task ==
  ToolInfo("create_task",
    "Create a new task in a list",
    [type |-> "object",
     properties |->
       [list_id |-> Prop("string", "List ID where task will be created"),
        name |-> Prop("string", "Task name"),
        description |-> Prop("string", "Task description"),
        status |-> Prop("string", "Task status (e.g., 'to do', 'in progress')"),
        priority |-> Prop("integer", "Priority level (1-4)")],
     required |-> <<"list_id", "name">>])

Tool_get_task ==
  ToolInfo("get_task",
    "Get detailed information about a specific task",
    [type |-> "object",
     properties |-> [task_id |-> Prop("string", "Task ID")],
     required |-> <<"task_id">>])

Tool_update_task ==
  ToolInfo("update_task",
    "Update an existing task",
    [type |-> "object",
     properties |-> [task_id |-> Prop("string", "Task ID"),
                     name |-> Prop("string", "New task name"),
                     description |-> Prop("string", "New description"),
                     status |-> Prop("string", "New status")],
     required |-> <<"task_id">>])

Tool_create_task_comment ==
  ToolInfo("create_task_comment",
    "Add a comment to a task",
    [type |-> "object",
     properties |-> [task_id |-> Prop("string", "Task ID"),
                     comment_text |-> Prop("string", "Comment text")],
     required |-> <<"task_id", "comment_text">>])

Tool_get_task_comments ==
  ToolInfo("get_task_comments",
    "Get all comments from a task",
    [type |-> "object",
     properties |-> [task_id |-> Prop("string", "Task ID")],
     required |-> <<"task_id">>])

Tool_get_workspace_members ==
  ToolInfo("get_workspace_members",
    "Get all members in the workspace",
    [type |-> "object", properties |-> <<>>])

Tool_create_list ==
  ToolInfo("create_list",
    "Create a new list in a space",
    [type |-> "object",
     properties |-> [space_id |-> Prop("string", "Space ID"),
                     name |-> Prop("string", "List name")],
     required |-> <<"space_id", "name">>])

\* a catalog whose last descriptor was forgotten
get_tools_list_short ==
  << Tool_search_workspace,
     Tool_get_workspace_hierarchy,
     Tool_get_workspace_tasks,
     Tool_create_task,
     Tool_get_task,
     Tool_update_task,
     Tool_create_task_comment,
     Tool_get_task_comments,
     Tool_get_workspace_members >>

\* a catalog in which a descriptor was pasted twice
get_tools_list_dup ==
  << Tool_search_workspace,
     Tool_get_workspace_hierarchy,
     Tool_get_workspace_tasks,
     Tool_create_task,
     Tool_get_task,
     Tool_update_task,
     Tool_create_task_comment,
     Tool_get_task,
     Tool_get_workspace_members,
     Tool_create_list >>

get_tools_list ==
  << Tool_search_workspace,
     Tool_get_workspace_hierarchy,
     Tool_get_workspace_tasks,
     Tool_create_task,
     Tool_get_task,
     Tool_update_task,
     Tool_create_task_comment,
     Tool_get_task_comments,
     Tool_get_workspace_members,
     Tool_create_list >>

----------------------------------------------------------------------------
(* JSON values of a request body *)

JInt(n) == [kind |-> "int", val |-> n]
JStr(v) == [kind |-> "str", val |-> v]
JMap(m) == [kind |-> "map", val |-> m]
JNull == [kind |-> "null", val |-> <<>>]
EmptyDict == <<>>

\* MCPRequest: what pydantic makes of the JSON body, or nothing when the body
\* does not validate (method: str is required; id: Optional[int];
\* params: Optional[Dict[str, Any]]).  The bodies of the model carry values
\* of the declared JSON types or values of plainly other types; values that
\* only pydantic's lenient conversion would accept (an id written as the
\* string "7") are not among them.
FieldKind(body, f) == IF f \in DOMAIN body THEN body[f].kind ELSE "absent"

ValidEnvelope(body) ==
  /\ FieldKind(body, "method") = "str"
  /\ FieldKind(body, "id") \in {"absent", "null", "int"}
  /\ FieldKind(body, "params") \in {"absent", "null", "map"}

MCPRequest(body) ==
  [ jsonrpc |-> "2.0",
    id |-> IF FieldKind(body, "id") = "int" THEN Some(body["id"].val) ELSE None,
    method |-> body["method"].val,
    params |-> IF FieldKind(body, "params") = "map"
                 THEN Some(body["params"].val) ELSE None ]

----------------------------------------------------------------------------
(* The handling of one request: position and local variables *)

NoCall == HttpCall(ClickUpAPI(""), "", <<>>, NoBody)
NoReply == [http |-> 0, jsonrpc |-> "", id |-> None, result |-> None, error |-> None]
NoRequest == [jsonrpc |-> "", id |-> None, method |-> "", params |-> None]

Idle ==
  [ pc |-> "idle",          \* idle, calling (a remote call is outstanding),
                            \* done (mcp_endpoint returned), rejected (422)
    body |-> <<>>,          \* the JSON body as posted
    request |-> NoRequest,  \* the validated MCPRequest
    tool_name |-> None,     \* tools/call: params.get("name")
    arguments |-> JNull,    \* the arguments object handed to execute_tool
    k |-> "",               \* where the tool resumes when the call returns
    pending |-> NoCall,     \* the outstanding remote call
    query |-> None,         \* search_workspace: query
    teams |-> <<>>,         \* teams['teams']
    spacesLeft |-> <<>>,    \* the spaces still to visit, current one first
    listsLeft |-> <<>>,     \* the lists of the current space still to visit
    acc |-> <<>>,           \* results / hierarchy / all_tasks
    calls |-> <<>>,         \* every remote call issued so far, in order
    fault |-> NoExc,        \* the exception mcp_endpoint caught
    tool_result |-> None,   \* the value execute_tool returned
    overlapped |-> FALSE,   \* history: ran while another request was waiting
    health |-> None,        \* GET /health: the dict health_check returned
    reply |-> NoReply ]     \* what goes back to the client

InternalError == -32603

\* MCPResponse(jsonrpc="2.0", id=request.id, result=result)
MCPResponseResult(id, result) ==
  [http |-> 200, jsonrpc |-> "2.0", id |-> id,
   result |-> Some(result), error |-> None]

\* an error response that also carries an (empty) result
MCPResponseErrorWithResult(id, e) ==
  [http |-> 200, jsonrpc |-> "2.0", id |-> id, result |-> Some(EmptyDict),
   error |-> Some([code |-> InternalError, message |-> ExcStr(e)])]

\* an error response built without the request's id
MCPResponseErrorNoId(id, e) ==
  [http |-> 200, jsonrpc |-> "2.0", id |-> None, result |-> None,
   error |-> Some([code |-> InternalError, message |-> ExcStr(e)])]

\* MCPResponse(jsonrpc="2.0", id=request.id,
\*             error={"code": -32603, "message": str(e)})
MCPResponseError(id, e) ==
  [http |-> 200, jsonrpc |-> "2.0", id |-> id, result |-> None,
   error |-> Some([code |-> InternalError, message |-> ExcStr(e)])]

\* the framework's answer to a body that is no MCPRequest: not an MCPResponse
ValidationError422 ==
  [http |-> 422, jsonrpc |-> "", id |-> None, result |-> None, error |-> None]

\* an exception that leaves mcp_endpoint: the framework answers 500
Unhandled500 ==
  [http |-> 500, jsonrpc |-> "", id |-> None, result |-> None, error |-> None]

\* return MCPResponse(..., result=result)
ReturnResult(l, result) ==
  [l EXCEPT !.pc = "done", !.pending = NoCall,
            !.reply = MCPResponseResult(l.request.id, result)]

\* `except ValueError as e`: any other exception leaves mcp_endpoint
ExceptHandlerOnlyValueError(l, e) ==
  IF e.type = "ValueError"
    THEN [l EXCEPT !.pc = "done", !.pending = NoCall, !.fault = e,
                   !.reply = MCPResponseError(l.request.id, e)]
    ELSE [l EXCEPT !.pc = "done", !.pending = NoCall, !.fault = e,
                   !.reply = Unhandled500]

\* except Exception as e: return MCPResponse(..., error=...)
ExceptHandler(l, e) ==
  [l EXCEPT !.pc = "done", !.pending = NoCall, !.fault = e,
            !.reply = MCPResponseError(l.request.id, e)]

\* json.dumps(tool_result, indent=2): a text that determines the value
JsonDumps(v) == [json |-> v, indent |-> 2]

\* str(tool_result), Python's repr of the value, is no JSON text
PyStr(v) == [repr |-> v]

\* the content block filled with str(tool_result)
ToolReturnStr(l, tool_result) ==
  ReturnResult([l EXCEPT !.tool_result = Some(tool_result)],
    [content |-> << [type |-> "text", text |-> PyStr(tool_result)] >>,
     isError |-> FALSE])

\* tools/call: the tool returned tool_result
ToolReturn(l, tool_result) ==
  ReturnResult([l EXCEPT !.tool_result = Some(tool_result)],
    [content |-> << [type |-> "text", text |-> JsonDumps(tool_result)] >>,
     isError |-> FALSE])

\* self.api.get/post/put(endpoint, data): the call goes out, the code waits
Issue(l, api, verb, endpoint, body, k) ==
  LET call == HttpCall(api, verb, endpoint, body)
  IN [l EXCEPT !.pc = "calling", !.pending = call, !.k = k,
               !.calls = Append(@, call)]

----------------------------------------------------------------------------
(* The tools of ClickUpMCPTools.  Each operator runs the tool's code from    *)
(* one remote call to the next: it ends by issuing a call (Issue), by        *)
(* returning the tool's value (ToolReturn) or by raising (ExceptHandler).    *)

\* type(v).__name__ of a JSON value
PyType(j) ==
  CASE j.kind = "map" -> "dict"
    [] j.kind = "str" -> "str"
    [] j.kind = "int" -> "int"
    [] OTHER -> "NoneType"

\* query in name, without the two lower()
MatchesCaseSensitive(query, name) == StrIn(query, name)

\* query.lower() in name.lower()
Matches(query, name) == StrIn(Lower(query), Lower(name))

\* a loop over the spaces that asks for the lists of the last space first
SpaceLoopFromEnd(l, api) ==
  IF l.spacesLeft = <<>>
    THEN ToolReturn(l, l.acc)
    ELSE Issue(l, api, "GET", EpLists(l.spacesLeft[Len(l.spacesLeft)].id),
               NoBody, "lists")

\* for space in spaces['spaces']: lists = self.api.get(f"space/{...}/list...")
\* (loop head of the fan-out tools; the loop's end returns the tool's value)
SpaceLoop(l, api) ==
  IF l.spacesLeft = <<>>
    THEN ToolReturn(l, l.acc)
    ELSE Issue(l, api, "GET", EpLists(Head(l.spacesLeft).id), NoBody, "lists")

\* for lst in lists['lists']: ... tasks = self.api.get(f"list/{...}/task...")
ListLoop(l, api, tool) ==
  IF l.listsLeft = <<>>
    THEN SpaceLoop([l EXCEPT !.spacesLeft = Tail(@)], api)
  ELSE LET lst == Head(l.listsLeft) IN
    IF tool = "search_workspace"
      THEN IF IsNone(l.query)
             THEN ExceptHandler(l, AttributeError("NoneType", "lower"))
             ELSE Issue([l EXCEPT !.acc.lists =
                           IF Matches(l.query[1], lst.name)
                             THEN Append(@, lst) ELSE @],
                        api, "GET", EpTasks(lst.id), NoBody, "tasks")
      ELSE Issue(l, api, "GET", EpTasks(lst.id), NoBody, "tasks")

\* teams = self.api.get("team"), the first statement of four tools
FetchTeams(l, api) == Issue(l, api, "GET", EpTeam, NoBody, "team")

\* search_workspace(arguments.get("query"))
search_workspace(l, api) ==
  IF l.arguments.kind # "map"
    THEN ExceptHandler(l, AttributeError(PyType(l.arguments), "get"))
    ELSE FetchTeams([l EXCEPT !.query = DictGet(l.arguments.val, "query")], api)

get_workspace_hierarchy(l, api) == FetchTeams(l, api)

\* a get_workspace_members that returns what GET team answers
get_workspace_members_one_call(l, api) ==
  Issue(l, api, "GET", EpTeam, NoBody, "final")

get_workspace_members(l, api) == FetchTeams(l, api)

\* a get_workspace_tasks that honours the space_id filter
get_workspace_tasks_in_space(l, api) ==
  IF l.arguments.kind # "map"
    THEN ExceptHandler(l, AttributeError(PyType(l.arguments), "get"))
  ELSE LET list_id == DictGet(l.arguments.val, "list_id")
           space_id == DictGet(l.arguments.val, "space_id") IN
    IF IsSome(list_id) /\ list_id[1] # ""
      THEN Issue(l, api, "GET", EpTasks(list_id[1]), NoBody, "single")
    ELSE IF IsSome(space_id)
      THEN Issue([l EXCEPT !.spacesLeft = << [id |-> space_id[1]] >>],
                 api, "GET", EpLists(space_id[1]), NoBody, "lists")
      ELSE FetchTeams(l, api)

\* a get_workspace_tasks that tests `'list_id' in filters`
get_workspace_tasks_if_present(l, api) ==
  IF l.arguments.kind # "map"
    THEN ExceptHandler(l, AttributeError(PyType(l.arguments), "get"))
  ELSE LET list_id == DictGet(l.arguments.val, "list_id") IN
    IF IsSome(list_id)
      THEN Issue(l, api, "GET", EpTasks(list_id[1]), NoBody, "single")
      ELSE FetchTeams(l, api)

\* get_workspace_tasks(arguments): `if list_id:` is Python truthiness
get_workspace_tasks(l, api) ==
  IF l.arguments.kind # "map"
    THEN ExceptHandler(l, AttributeError(PyType(l.arguments), "get"))
  ELSE LET list_id == DictGet(l.arguments.val, "list_id") IN
    IF IsSome(list_id) /\ list_id[1] # ""
      THEN Issue(l, api, "GET", EpTasks(list_id[1]), NoBody, "single")
      ELSE FetchTeams(l, api)

\* a create_task that posts its arguments as they came
create_task_forwards_arguments(l, api) ==
  IF l.arguments.kind # "map"
    THEN ExceptHandler(l, TypeErrorSubscript(PyType(l.arguments)))
  ELSE LET a == l.arguments.val IN
    IF "list_id" \notin DOMAIN a THEN ExceptHandler(l, KeyError("list_id"))
    ELSE IF "name" \notin DOMAIN a THEN ExceptHandler(l, KeyError("name"))
    ELSE Issue(l, api, "POST", EpCreateTask(a["list_id"]), a, "final")

create_task(l, api) ==
  IF l.arguments.kind # "map"
    THEN ExceptHandler(l, TypeErrorSubscript(PyType(l.arguments)))
  ELSE LET a == l.arguments.val IN
    IF "list_id" \notin DOMAIN a THEN ExceptHandler(l, KeyError("list_id"))
    ELSE IF "name" \notin DOMAIN a THEN ExceptHandler(l, KeyError("name"))
    ELSE LET task_data ==
               [ name |-> a["name"],
                 description |-> IF "description" \in DOMAIN a
                                   THEN a["description"] ELSE "",
                 status |-> IF "status" \in DOMAIN a
                              THEN a["status"] ELSE "to do" ]
             with_priority ==
               [ name |-> task_data.name,
                 description |-> task_data.description,
                 status |-> task_data.status,
                 priority |-> a["priority"] ]
         IN Issue(l, api, "POST", EpCreateTask(a["list_id"]),
                  IF "priority" \in DOMAIN a THEN with_priority ELSE task_data,
                  "final")

\* a get_task handed arguments["task_id"] instead of arguments.get("task_id")
get_task_subscript(l, api) ==
  IF l.arguments.kind # "map"
    THEN ExceptHandler(l, TypeErrorSubscript(PyType(l.arguments)))
  ELSE IF "task_id" \notin DOMAIN l.arguments.val
    THEN ExceptHandler(l, KeyError("task_id"))
    ELSE Issue(l, api, "GET", EpTask(l.arguments.val["task_id"]), NoBody, "final")

get_task(l, api) ==
  IF l.arguments.kind # "map"
    THEN ExceptHandler(l, AttributeError(PyType(l.arguments), "get"))
    ELSE Issue(l, api, "GET",
               EpTask(Fmt(DictGet(l.arguments.val, "task_id"))), NoBody, "final")

\* an update_task that works on a copy of its arguments
update_task_on_copy(l, api) ==
  IF l.arguments.kind # "map"
    THEN ExceptHandler(l, AttributeError(PyType(l.arguments), "pop"))
  ELSE LET a == l.arguments.val IN
    IF "task_id" \notin DOMAIN a THEN ExceptHandler(l, KeyError("task_id"))
    ELSE Issue(l, api, "PUT", EpTask(a["task_id"]),
               DictWithout(a, "task_id"), "final")

\* an update_task that reads task_id with [] and leaves it in the dict
update_task_keeps_task_id(l, api) ==
  IF l.arguments.kind # "map"
    THEN ExceptHandler(l, TypeErrorSubscript(PyType(l.arguments)))
  ELSE LET a == l.arguments.val IN
    IF "task_id" \notin DOMAIN a THEN ExceptHandler(l, KeyError("task_id"))
    ELSE Issue(l, api, "PUT", EpTask(a["task_id"]), a, "final")

\* task_id = arguments.pop('task_id'): the arguments dict itself loses the key
update_task(l, api) ==
  IF l.arguments.kind # "map"
    THEN ExceptHandler(l, AttributeError(PyType(l.arguments), "pop"))
  ELSE LET a == l.arguments.val IN
    IF "task_id" \notin DOMAIN a THEN ExceptHandler(l, KeyError("task_id"))
    ELSE LET rest == DictWithout(a, "task_id") IN
      Issue([l EXCEPT !.arguments = JMap(rest)],
            api, "PUT", EpTask(a["task_id"]), rest, "final")

create_task_comment(l, api) ==
  IF l.arguments.kind # "map"
    THEN ExceptHandler(l, AttributeError(PyType(l.arguments), "get"))
  ELSE LET a == l.arguments.val IN
    Issue(l, api, "POST", EpComment(Fmt(DictGet(a, "task_id"))),
          [comment_text |-> DictGet(a, "comment_text")], "final")

\* a get_task_comments that calls self.api.post
get_task_comments_posts(l, api) ==
  IF l.arguments.kind # "map"
    THEN ExceptHandler(l, AttributeError(PyType(l.arguments), "get"))
    ELSE Issue(l, api, "POST",
               EpComment(Fmt(DictGet(l.arguments.val, "task_id"))), NoBody, "final")

get_task_comments(l, api) ==
  IF l.arguments.kind # "map"
    THEN ExceptHandler(l, AttributeError(PyType(l.arguments), "get"))
    ELSE Issue(l, api, "GET",
               EpComment(Fmt(DictGet(l.arguments.val, "task_id"))), NoBody, "final")

create_list(l, api) ==
  IF l.arguments.kind # "map"
    THEN ExceptHandler(l, AttributeError(PyType(l.arguments), "get"))
  ELSE LET a == l.arguments.val IN
    Issue(l, api, "POST", EpCreateList(Fmt(DictGet(a, "space_id"))),
          [name |-> DictGet(a, "name")], "final")

\* an if/elif chain without its final `else: raise`: the call returns None
execute_tool_no_else(l, api, tool_name) ==
  LET n == Fmt(tool_name) t == IsSome(tool_name) IN
  CASE t /\ n = "search_workspace" -> search_workspace(l, api)
    [] t /\ n = "get_workspace_hierarchy" -> get_workspace_hierarchy(l, api)
    [] t /\ n = "get_workspace_tasks" -> get_workspace_tasks(l, api)
    [] t /\ n = "create_task" -> create_task(l, api)
    [] t /\ n = "get_task" -> get_task(l, api)
    [] t /\ n = "update_task" -> update_task(l, api)
    [] t /\ n = "create_task_comment" -> create_task_comment(l, api)
    [] t /\ n = "get_task_comments" -> get_task_comments(l, api)
    [] t /\ n = "get_workspace_members" -> get_workspace_members(l, api)
    [] t /\ n = "create_list" -> create_list(l, api)
    [] OTHER -> ToolReturn(l, None)

\* ClickUpMCPTools.execute_tool: the if/elif chain over tool_name
\* (tool_name is params.get("name"): a string, or None)
execute_tool(l, api, tool_name) ==
  LET n == Fmt(tool_name) t == IsSome(tool_name) IN
  CASE t /\ n = "search_workspace" -> search_workspace(l, api)
    [] t /\ n = "get_workspace_hierarchy" -> get_workspace_hierarchy(l, api)
    [] t /\ n = "get_workspace_tasks" -> get_workspace_tasks(l, api)
    [] t /\ n = "create_task" -> create_task(l, api)
    [] t /\ n = "get_task" -> get_task(l, api)
    [] t /\ n = "update_task" -> update_task(l, api)
    [] t /\ n = "create_task_comment" -> create_task_comment(l, api)
    [] t /\ n = "get_task_comments" -> get_task_comments(l, api)
    [] t /\ n = "get_workspace_members" -> get_workspace_members(l, api)
    [] t /\ n = "create_list" -> create_list(l, api)
    [] OTHER -> ExceptHandler(l, ValueError(<<"Unknown tool: ", n>>))

----------------------------------------------------------------------------
(* A remote call returned its JSON document: the tool's code runs on *)

\* [task for task in tasks if query.lower() in task['name'].lower()]
MatchingTasks(query, tasks) ==
  SelectSeq(tasks, LAMBDA task : Matches(query, task.name))

\* the id of the last workspace listed
team_id_of_last(teams) == teams[Len(teams)].id

\* team_id = teams['teams'][0]['id']
team_id_of(teams) == teams[1].id

\* a space entry whose lists were never filled in
space_data_without_lists(space, lists) ==
  [id |-> space.id, name |-> space.name, lists |-> <<>>]

\* get_workspace_hierarchy: space_data, with space_data['lists'] assigned
space_data(space, lists) ==
  [id |-> space.id, name |-> space.name, lists |-> lists]

Resume(l, api, doc) ==
  LET tool == Fmt(l.tool_name) IN
  CASE l.k = "final" ->
         \* return self.api.get/post/put(...)
         ToolReturn(l, doc)
    [] l.k = "single" ->
         \* return tasks['tasks']
         ToolReturn(l, doc.tasks)
    [] l.k = "team" ->
         \* team_id = teams['teams'][0]['id']
         IF doc.teams = <<>>
           THEN ExceptHandler(l, IndexError)
         ELSE LET team_id == team_id_of(doc.teams)
                  l1 == [l EXCEPT !.teams = doc.teams]
              IN IF tool = "get_workspace_members"
                   THEN Issue(l1, api, "GET", EpMembers(team_id), NoBody, "final")
                   ELSE Issue(l1, api, "GET", EpSpaces(team_id), NoBody, "spaces")
    [] l.k = "spaces" ->
         LET acc0 ==
               CASE tool = "search_workspace" ->
                      [tasks |-> <<>>, lists |-> <<>>, spaces |-> doc.spaces]
                 [] tool = "get_workspace_hierarchy" ->
                      [workspace |-> l.teams[1], spaces |-> <<>>]
                 [] OTHER -> <<>>
         IN SpaceLoop([l EXCEPT !.acc = acc0, !.spacesLeft = doc.spaces], api)
    [] l.k = "lists" ->
         IF tool = "get_workspace_hierarchy"
           THEN LET space == Head(l.spacesLeft)
                IN SpaceLoop([l EXCEPT !.acc.spaces =
                                         Append(@, space_data(space, doc.lists)),
                                       !.spacesLeft = Tail(@)], api)
           ELSE ListLoop([l EXCEPT !.listsLeft = doc.lists], api, tool)
    [] l.k = "tasks" ->
         LET l1 == IF tool = "search_workspace"
                     THEN [l EXCEPT !.acc.tasks =
                             @ \o MatchingTasks(l.query[1], doc.tasks)]
                     ELSE [l EXCEPT !.acc = @ \o doc.tasks]
         IN ListLoop([l1 EXCEPT !.listsLeft = Tail(@)], api, tool)

\* a handler that is cancelled, without a response, when a call fails
CallReturnsCancels(l, api) ==
  LET r == Remote(l.pending) IN
  IF r.ok THEN Resume(l, api, r.doc) ELSE Idle

\* a tool that, when a call inside its loops fails, returns what it has
CallReturnsPartial(l, api) ==
  LET r == Remote(l.pending) IN
  IF r.ok THEN Resume(l, api, r.doc)
  ELSE IF l.k \in {"lists", "tasks"} THEN ToolReturn(l, l.acc)
  ELSE ExceptHandler(l, r.exc)

\* the outstanding call comes back: its document, or the exception that
\* requests / raise_for_status / response.json() raised
CallReturns(l, api) ==
  LET r == Remote(l.pending) IN
  IF r.ok THEN Resume(l, api, r.doc) ELSE ExceptHandler(l, r.exc)

----------------------------------------------------------------------------
(* mcp_endpoint: the dispatcher *)

InitializeResult ==
  [ protocolVersion |-> "2024-11-05",
    capabilities |-> [tools |-> EmptyDict],
    serverInfo |-> [name |-> "clickup-mcp-server", version |-> "1.0.0"] ]

\* params.get("arguments"): no default, so None when the key is absent
ArgumentsOfNoDefault(params) ==
  IF "arguments" \in DOMAIN params THEN params["arguments"] ELSE JNull

\* params.get("arguments", {})
ArgumentsOf(params) ==
  IF "arguments" \in DOMAIN params THEN params["arguments"] ELSE JMap(EmptyDict)

\* params.get("name"); the model's names are strings
ToolNameOf(params) ==
  IF "name" \in DOMAIN params THEN Some(params["name"].val) ELSE None

\* an initialize that copies the request's id into its result
mcp_endpoint_init_echo(l, api) ==
  LET method == l.request.method
      params == IF IsNone(l.request.params) THEN EmptyDict
                ELSE l.request.params[1]
  IN
  CASE method = "initialize" ->
         ReturnResult(l, [ protocolVersion |-> InitializeResult.protocolVersion,
                           capabilities |-> InitializeResult.capabilities,
                           serverInfo |-> InitializeResult.serverInfo,
                           requestId |-> l.request.id ])
    [] method = "tools/list" ->
         ReturnResult(l, [tools |-> get_tools_list])
    [] method = "tools/call" ->
         LET l1 == [l EXCEPT !.tool_name = ToolNameOf(params),
                             !.arguments = ArgumentsOf(params)]
         IN execute_tool(l1, api, l1.tool_name)
    [] OTHER ->
         ExceptHandler(l, ValueError(<<"Unknown method: ", method>>))

\* the body of mcp_endpoint, up to its first remote call
mcp_endpoint(l, api) ==
  LET method == l.request.method
      params == IF IsNone(l.request.params) THEN EmptyDict
                ELSE l.request.params[1]
  IN
  CASE method = "initialize" ->
         ReturnResult(l, InitializeResult)
    [] method = "tools/list" ->
         ReturnResult(l, [tools |-> get_tools_list])
    [] method = "tools/call" ->
         LET l1 == [l EXCEPT !.tool_name = ToolNameOf(params),
                             !.arguments = ArgumentsOf(params)]
         IN execute_tool(l1, api, l1.tool_name)
    [] OTHER ->
         ExceptHandler(l, ValueError(<<"Unknown method: ", method>>))

\* POST /mcp with a JSON body: the framework validates the body as an
\* MCPRequest and only then calls mcp_endpoint
PostMcp(body, api) ==
  LET l == [Idle EXCEPT !.body = body] IN
  IF ValidEnvelope(body)
    THEN mcp_endpoint([l EXCEPT !.request = MCPRequest(body)], api)
    ELSE [l EXCEPT !.pc = "rejected", !.reply = ValidationError422]

----------------------------------------------------------------------------
(* health_check: GET /health *)

\* a health check that answers from the configuration, without asking
HealthReturnsStatic(l, api) ==
  [l EXCEPT !.pc = "health_done", !.pending = NoCall,
            !.health = IF api.api_token # ""
                         THEN Some([ status |-> "healthy",
                                     service |-> "clickup-mcp-server",
                                     authenticated |-> TRUE,
                                     user |-> "ann" ])
                         ELSE Some([status |-> "unhealthy",
                                    authenticated |-> FALSE])]

\* try: user = clickup_api.get("user")
health_check(l, api) ==
  [Issue(l, api, "GET", EpUser, NoBody, "health") EXCEPT !.pc = "health_calling"]

\* ... return {"status": "healthy", ..., "user": user['user']['username']}
\* except: return {"status": "unhealthy", "authenticated": False}
HealthReturns(l, api) ==
  LET r == Remote(l.pending)
      read == r.ok /\ "user" \in DOMAIN r.doc
                   /\ "username" \in DOMAIN r.doc.user
  IN [l EXCEPT !.pc = "health_done", !.pending = NoCall,
               !.health = IF read
                            THEN Some([ status |-> "healthy",
                                        service |-> "clickup-mcp-server",
                                        authenticated |-> TRUE,
                                        user |-> r.doc.user.username ])
                            ELSE Some([status |-> "unhealthy",
                                       authenticated |-> FALSE])]

----------------------------------------------------------------------------
(* The inputs: worlds and request bodies *)

NoFaultWorld == [teams |-> Teams, failing |-> None, fault |-> "none"]
\* the token is valid but the account has no workspace
NoTeamWorld == [teams |-> <<>>, failing |-> None, fault |-> "none"]

Faults ==
  { [ep |-> EpTeam, kind |-> "http"],
    [ep |-> EpSpaces("T1"), kind |-> "network"],
    [ep |-> EpLists("S1"), kind |-> "json"],
    [ep |-> EpLists("S2"), kind |-> "http"],
    [ep |-> EpTasks("L1"), kind |-> "network"],
    [ep |-> EpTasks("L3"), kind |-> "json"],
    [ep |-> EpTask("K1"), kind |-> "http"],
    [ep |-> EpCreateTask("L1"), kind |-> "network"],
    [ep |-> EpMembers("T1"), kind |-> "json"],
    [ep |-> EpComment("K1"), kind |-> "http"],
    [ep |-> EpCreateList("S1"), kind |-> "network"],
    [ep |-> EpUser, kind |-> "http"],
    [ep |-> EpUser, kind |-> "shape"] }

Worlds ==
  {NoFaultWorld, NoTeamWorld}
    \cup {[teams |-> Teams, failing |-> Some(f.ep), fault |-> f.kind] : f \in Faults}

\* a JSON object with the given optional members
Body(id, method, params) ==
  [ f \in (IF IsSome(id) THEN {"id"} ELSE {})
            \cup (IF IsSome(method) THEN {"method"} ELSE {})
            \cup (IF IsSome(params) THEN {"params"} ELSE {})
      |-> CASE f = "id" -> id[1]
            [] f = "method" -> method[1]
            [] OTHER -> params[1] ]

Params(name, arguments) ==
  [ f \in (IF IsSome(name) THEN {"name"} ELSE {})
            \cup (IF IsSome(arguments) THEN {"arguments"} ELSE {})
      |-> IF f = "name" THEN JStr(name[1]) ELSE arguments[1] ]

IdChoices == {None, Some(JInt(1)), Some(JInt(2))}

\* the tool names clients call: the ten of the source, and names that no
\* tool has (one that never existed, one in another case, the empty name)
CalledNames ==
  { "search_workspace", "get_workspace_hierarchy", "get_workspace_tasks",
    "create_task", "get_task", "update_task", "create_task_comment",
    "get_task_comments", "get_workspace_members", "create_list",
    "delete_task", "Get_Task", "" }

NameChoices == {Some(n) : n \in CalledNames} \cup {None}

ArgMaps ==
  { EmptyDict,
    [query |-> <<"f", "I">>],
    [query |-> <<"z">>],
    [query |-> <<"X">>],
    [query |-> <<>>],
    [list_id |-> "L1"],
    [list_id |-> ""],
    [name |-> "N"],
    [list_id |-> "L1", name |-> "N"],
    [list_id |-> "L1", name |-> "N", description |-> "D",
     status |-> "done", priority |-> "2"],
    [list_id |-> "L3", name |-> "M", status |-> "open"],
    [list_id |-> "L2", name |-> "M", priority |-> "1", assignee |-> "U1"],
    [task_id |-> "K1"],
    [task_id |-> "K2", name |-> "N", status |-> "done"],
    [task_id |-> "K1", comment_text |-> "hi"],
    [space_id |-> "S1", name |-> "N"],
    [space_id |-> "S2", assignee |-> "U1"],
    [list_id |-> "L3", space_id |-> "S1"] }

ArgChoices ==
  {None, Some(JStr("oops")), Some(JNull)} \cup {Some(JMap(m)) : m \in ArgMaps}

PlainBodies ==
  { Body(i, Some(JStr(m)), p) :
      i \in IdChoices,
      m \in {"initialize", "tools/list", "resources/list"},
      p \in {None, Some(JNull), Some(JMap(EmptyDict)),
             Some(JMap([protocolVersion |-> JStr("2025-01-01")]))} }

CallBodies ==
  { Body(i, Some(JStr("tools/call")), Some(JMap(Params(n, a)))) :
      i \in IdChoices, n \in NameChoices, a \in ArgChoices }
    \cup { Body(i, Some(JStr("tools/call")), None) : i \in IdChoices }

\* bodies that are no MCPRequest: no method, a method or an id of the wrong
\* type, params that is no object
MalformedBodies ==
  { Body(Some(JInt(1)), None, None),
    Body(Some(JInt(1)), Some(JInt(7)), None),
    Body(Some(JStr("abc")), Some(JStr("initialize")), None),
    Body(Some(JInt(2)), Some(JStr("tools/list")), Some(JStr("oops"))),
    Body(None, None, Some(JMap(EmptyDict))) }

Bodies == PlainBodies \cup CallBodies \cup MalformedBodies

----------------------------------------------------------------------------
(* The interactive programs clickup_app.py ("app"), main.py ("main") and    *)
(* clickup_agent.py ("agent").  A step runs the program from one input()    *)
(* to the next; its remote calls block and are answered within the step.    *)
(* Of the menus, the options that lead to select_from_list, to the delete   *)
(* of a task and to the update operations are modelled; the other options   *)
(* are not among the inputs.                                                *)

\* JSON values of an update body
JText(t) == [kind |-> "text", val |-> t]
JBool(b) == [kind |-> "bool", val |-> b]
JList(v) == [kind |-> "list", val |-> v]
\* int(dt.timestamp() * 1000), kept as the minutes it is a multiple of
JMillis(minutes) == [kind |-> "millis", val |-> minutes]

\* the dict with the given (key, value) pairs
DictOf(pairs) ==
  [k \in {p[1] : p \in pairs} |-> (CHOOSE p \in pairs : p[1] = k)[2]]

\* `if not x` for a value that may be None and is a string otherwise
Falsy(o) == IsNone(o) \/ o[1] = ""

\* ClickUpAPI.__init__ of the interactive programs (base_url_v3: main.py)
CliClickUpAPI(api_token) ==
  [ api_token |-> api_token,
    base_url |-> BaseUrl,
    base_url_v3 |-> BaseUrlV3,
    headers |-> [Authorization |-> api_token] ]

\* the HTTP request of get/post/put/delete, use_v3 choosing the base
CliCall(api, verb, endpoint, body, use_v3) ==
  [ verb |-> verb,
    endpoint |-> endpoint,
    url |-> Url(IF use_v3 THEN api.base_url_v3 ELSE api.base_url, endpoint),
    headers |-> api.headers,
    body |-> body ]

\* select_from_list's locals, and what it returned
NoSelect == [what |-> "", items |-> <<>>, prompted |-> FALSE, ret |-> None]

\* no interactive program runs
CliOff ==
  [ prog |-> "none",     \* which program
    pc |-> "off",        \* the input() it waits at, or exited / spinning
    api |-> None,        \* the ClickUpAPI object, once constructed
    openai |-> None,     \* the key the OpenAI client was built with
    menu |-> "",         \* the menu loop the program is in
    workspace |-> None,  \* the workspace, list, doc and task selected
    lst |-> None,
    doc |-> None,
    task |-> None,
    sel |-> NoSelect,
    fn |-> "",           \* the update operation running or last run
    target |-> <<>>,     \* the endpoint it would PUT to
    update_data |-> None,\* the body it computed, once computed
    ret |-> None,        \* what it returned
    raised |-> NoExc,    \* the exception that left it, if one did
    calls |-> <<>>,      \* the remote calls since the last menu choice
    returns |-> <<>>,    \* history: what select_from_list returned in this step
    called |-> FALSE,    \* history: a remote call was issued
    asked |-> FALSE,     \* history: a prompt or menu was shown
    out |-> "",          \* the last message printed
    input |-> <<>> ]     \* the texts entered in the last step

\* python <program>.py
Launch(prog) == [CliOff EXCEPT !.prog = prog, !.pc = "start"]

\* select_from_list returns ret, after the line entered if it prompted
Returning(c, ret) ==
  [c EXCEPT !.sel.ret = ret, !.pc = "selected",
            !.returns = Append(@, [items |-> c.sel.items,
                                   prompted |-> c.sel.prompted,
                                   entered |-> IF c.sel.prompted THEN c.input
                                               ELSE <<>>,
                                   ret |-> ret])]

\* a step of the program begins
Step(c) == [c EXCEPT !.returns = <<>>]

\* a new command begins: the locals of the last one are gone
Fresh(c) ==
  [c EXCEPT !.calls = <<>>, !.input = <<>>, !.out = "", !.sel = NoSelect,
            !.task = None, !.doc = None, !.fn = "", !.target = <<>>,
            !.update_data = None, !.ret = None, !.raised = NoExc]

\* one blocking remote call: the program after it, and its outcome
Do(c, verb, endpoint, body, use_v3) ==
  LET call == CliCall(c.api[1], verb, endpoint, body, use_v3) IN
  [ c |-> [c EXCEPT !.calls = Append(@, call), !.called = TRUE],
    r |-> Remote(call) ]

\* doc[key] does not raise
Has(doc, key) == key \in DOMAIN doc

\* select_from_list up to its first input(): `if not items: return None`
select_from_list(c, items, what) ==
  IF items = <<>>
    THEN Returning([c EXCEPT !.sel = [what |-> what, items |-> items,
                                      prompted |-> FALSE, ret |-> None],
                             !.out = "No items found!"], None)
    ELSE [c EXCEPT !.sel = [what |-> what, items |-> items,
                            prompted |-> TRUE, ret |-> None],
                   !.pc = "select", !.asked = TRUE]

\* a select_from_list that indexes the list with the number entered
select_input_unchecked(c, text) ==
  LET choice == int(Strip(text))
      c1 == [c EXCEPT !.input = << text >>] IN
  IF IsNone(choice)
    THEN [c1 EXCEPT !.out = "Please enter a number."]
  ELSE IF choice[1] = 0
    THEN Returning(c1, None)
  ELSE IF choice[1] <= Len(c.sel.items)
    THEN Returning(c1, Some(c.sel.items[IF choice[1] >= 1 THEN choice[1]
                                        ELSE Len(c.sel.items)]))
  ELSE [c1 EXCEPT !.out = "Invalid choice. Try again."]

\* select_from_list's loop body: one input() and what follows it
select_input(c, text) ==
  LET choice == int(Strip(text))
      c1 == [c EXCEPT !.input = << text >>] IN
  IF IsNone(choice)                                   \* except ValueError
    THEN [c1 EXCEPT !.out = "Please enter a number."]
  ELSE IF choice[1] = 0
    THEN Returning(c1, None)
  ELSE IF 1 <= choice[1] /\ choice[1] <= Len(c.sel.items)
    THEN Returning(c1, Some(c.sel.items[choice[1]]))
  ELSE [c1 EXCEPT !.out = "Invalid choice. Try again."]

\* an update or delete operation returned to the menu it was called from
Return(c, value) == [c EXCEPT !.ret = value, !.pc = c.menu]

\* the document is one the operation can print its summary of
Printable(fn, doc) ==
  CASE fn \in {"update_existing_task", "smart_task_update"} ->
         /\ Has(doc, "name") /\ Has(doc, "status")
         /\ Has(doc.status, "status")
    [] fn = "update_list" -> Has(doc, "name")
    [] fn = "update_goal" -> Has(doc, "name")
    [] OTHER -> TRUE

\* what the PUT returned is printed by the operation without raising
PrintableUpdate(fn, doc) ==
  IF fn = "update_goal" THEN Has(doc, "goal") /\ Has(doc.goal, "name")
  ELSE Printable(fn, doc)

\* update_existing_task, update_list, update_goal up to the first input():
\* the current item is read and printed; edit_page reads nothing
BeginUpdate(c, fn, endpoint) ==
  LET c0 == [c EXCEPT !.fn = fn, !.target = endpoint, !.update_data = None,
                      !.ret = None, !.raised = NoExc]
      d == Do(c0, "GET", endpoint, NoBody, FALSE) IN
  IF fn = "edit_page"
    THEN [c0 EXCEPT !.pc = "fields", !.asked = TRUE]
  ELSE IF d.r.ok /\ Printable(fn, d.r.doc)
    THEN [d.c EXCEPT !.pc = "fields", !.asked = TRUE]
  ELSE Return([d.c EXCEPT !.out = "Error getting item"], None)

\* the entries of update_data a text input contributes
TextPairs(key, t) == IF t # <<>> THEN {<<key, JText(t)>>} ELSE {}

\* main.py update_existing_task, "Handle start date" / "Handle due date"
DatePairs(date_str, time_str, key, key_time) ==
  IF date_str = <<>> THEN {}
  ELSE IF Lower(date_str) = <<"c", "l", "e", "a", "r">>
    THEN {<<key, JNull>>}
  ELSE LET dt == IF time_str # <<>>
                   THEN strptime_datetime(date_str \o <<" ">> \o time_str)
                   ELSE strptime_date(date_str)
       IN IF IsNone(dt) THEN {}                       \* except ValueError
          ELSE {<<key_time, JBool(time_str # <<>>)>>}
                 \cup (IF IsNone(timestamp(dt[1])) THEN {}   \* except ValueError
                       ELSE {<<key, JMillis(timestamp(dt[1])[1])>>})

\* update_list: `priority.isdigit() and 1 <= int(priority) <= 4` raises
PriorityRaises(priority) ==
  priority # <<>> /\ isdigit(priority) /\ IsNone(int(priority))

PriorityPairs(priority) ==
  IF priority # <<>> /\ isdigit(priority)
     /\ 1 <= int(priority)[1] /\ int(priority)[1] <= 4
    THEN {<<"priority", JInt(int(priority)[1])>>}
    ELSE {}

\* how many input() calls the operation makes
NumInputs(prog, fn) ==
  CASE fn = "update_existing_task" -> IF prog = "main" THEN 7 ELSE 3
    [] fn = "update_list" -> 3
    [] OTHER -> 2

\* update_data as the operation builds it from its stripped inputs
UpdateData(prog, fn, in) ==
  LET v(i) == Strip(in[i]) IN
  DictOf(
    CASE fn = "update_existing_task" ->
           TextPairs("name", v(1)) \cup TextPairs("description", v(2))
             \cup TextPairs("status", Lower(v(3)))
             \cup (IF prog = "main"
                     THEN DatePairs(v(4), v(5), "start_date", "start_date_time")
                            \cup DatePairs(v(6), v(7), "due_date", "due_date_time")
                     ELSE {})
      [] fn = "update_list" ->
           TextPairs("name", v(1)) \cup TextPairs("content", v(2))
             \cup PriorityPairs(v(3))
      [] fn = "update_goal" ->
           TextPairs("name", v(1)) \cup TextPairs("description", v(2))
      [] OTHER ->
           TextPairs("name", v(1)) \cup TextPairs("content", v(2)))

\* the inputs of an update operation, `if not update_data: return None`,
\* and the PUT
fields_input(c, in) ==
  IF c.fn = "update_list" /\ PriorityRaises(Strip(in[3]))
    THEN \* ValueError leaves update_list and task_management_menu; main()'s
         \* except prints it and shows the main menu
         [c EXCEPT !.input = in,
                   !.raised = ValueError(<<"invalid literal for int()">>),
                   !.pc = "main_menu", !.menu = "main_menu"]
  ELSE
  LET update_data == UpdateData(c.prog, c.fn, in)
      c1 == [c EXCEPT !.input = in, !.update_data = Some(JMap(update_data))]
      d == Do(c1, "PUT", c.target, update_data, c.fn = "edit_page") IN
  IF DOMAIN update_data = {}
    THEN Return([c1 EXCEPT !.out = "No changes to make!"], None)
    ELSE Return(d.c, IF d.r.ok /\ PrintableUpdate(c.fn, d.r.doc)
                       THEN Some(d.r.doc) ELSE None)

\* a delete that does not look at the answer
confirm_input_any(c, text) ==
  LET d == Do([c EXCEPT !.input = << text >>],
              "DELETE", EpTask(c.task[1].id), NoBody, FALSE) IN
  [d.c EXCEPT !.pc = c.menu,
              !.out = IF d.r.ok THEN "Task deleted!" ELSE "Error"]

\* task_management_menu, delete: the answer to "Are you sure", not stripped
confirm_input(c, text) ==
  LET c1 == [c EXCEPT !.input = << text >>]
      d == Do(c1, "DELETE", EpTask(c.task[1].id), NoBody, FALSE) IN
  IF Lower(text) = <<"y", "e", "s">>
    THEN [d.c EXCEPT !.pc = c.menu,
                     !.out = IF d.r.ok THEN "Task deleted!" ELSE "Error"]
    ELSE [c1 EXCEPT !.pc = c.menu]

\* json.loads of the texts the completion may carry: Some(value), or None
\* for JSONDecodeError
json_loads(text) ==
  CASE text = <<"{}">> -> Some(JMap(EmptyDict))
    [] text = <<"{\"status\": \"complete\"}">> ->
         Some(JMap([status |-> JText(<<"c", "o", "m", "p", "l", "e", "t", "e">>)]))
    [] text = <<"[]">> -> Some(JList(<<>>))
    [] text = <<"[1]">> -> Some(JList(<< JInt(1) >>))
    [] text = <<"null">> -> Some(JNull)
    [] OTHER -> None

\* str.strip() on a text given as tokens: blanks and newlines go
RECURSIVE StripTokens(_)
StripTokens(t) ==
  IF t # <<>> /\ Head(t) \in {" ", "\n"} THEN StripTokens(Tail(t))
  ELSE IF t # <<>> /\ t[Len(t)] \in {" ", "\n"}
    THEN StripTokens(SubSeq(t, 1, Len(t) - 1))
  ELSE t

\* the token that stands for a code fence (three backquotes)
Fence == "<fence>"

\* smart_task_update: the completion's text with its code fence taken off
Unfenced(response_text) ==
  LET t == StripTokens(response_text)
      inner == Split(t, Fence)[2]
  IN IF t # <<>> /\ t[1] = Fence
       THEN IF inner # <<>> /\ inner[1] = "json" THEN Tail(inner) ELSE inner
       ELSE t

\* `if not update_data`
Truthy(j) ==
  CASE j.kind \in {"map", "list"} -> DOMAIN j.val # {}
    [] j.kind = "null" -> FALSE
    [] OTHER -> TRUE

\* smart_task_update up to the completion request: the task is read
request_input(c, text) ==
  LET update_request == Strip(text)
      c0 == [c EXCEPT !.input = << text >>, !.fn = "smart_task_update",
                      !.target = EpTask(c.task[1].id), !.update_data = None,
                      !.ret = None, !.raised = NoExc]
      d == Do(c0, "GET", c0.target, NoBody, FALSE) IN
  IF update_request = <<>>
    THEN [c EXCEPT !.input = << text >>, !.pc = c.menu]
  ELSE IF d.r.ok /\ Printable("smart_task_update", d.r.doc)
    THEN [d.c EXCEPT !.pc = "llm"]
  ELSE Return([d.c EXCEPT !.out = "Error"], None)

\* smart_task_update from the completion on: parse, `if not update_data`,
\* PUT; every exception ends in `return None`
completion(c, resp) ==
  LET update_data == json_loads(StripTokens(Unfenced(resp.text)))
      c1 == [c EXCEPT !.update_data = update_data]
      d == Do(c1, "PUT", c.target, update_data[1].val, FALSE) IN
  IF ~resp.ok \/ IsNone(update_data)
    THEN Return([c EXCEPT !.out = "Error"], None)
  ELSE IF ~Truthy(update_data[1])
    THEN Return([c1 EXCEPT !.out = "No changes detected!"], None)
  ELSE IF update_data[1].kind # "map"                  \* .items() raises
    THEN Return([c1 EXCEPT !.out = "Error"], None)
  ELSE IF d.r.ok THEN Return(d.c, Some(d.r.doc))
  ELSE Return([d.c EXCEPT !.out = "Error"], None)

\* where `continue` or a caught exception of the navigation leads: the top of
\* the while loop in clickup_app.py and clickup_agent.py, the main menu in
\* main.py
Again(c) ==
  IF c.prog = "main" THEN [c EXCEPT !.pc = "main_menu", !.menu = "main_menu"]
  ELSE [c EXCEPT !.pc = "round"]

\* GET of a list of items and select_from_list on it; a failed call or a
\* missing key raises to the handler at `caught`; with lenient, the key is
\* read with .get(key, [])
SelectFrom(c, endpoint, key, what, use_v3, lenient, caught) ==
  LET d == Do(c, "GET", endpoint, NoBody, use_v3) IN
  IF d.r.ok /\ Has(d.r.doc, key)
    THEN select_from_list(d.c, d.r.doc[key], what)
  ELSE IF d.r.ok /\ lenient
    THEN select_from_list(d.c, <<>>, what)
  ELSE [caught EXCEPT !.calls = d.c.calls, !.called = TRUE, !.out = "Error"]

\* the top of `while True` in main() of clickup_app.py and clickup_agent.py;
\* a failing team call is caught and the loop continues with the same call
Round(c) ==
  LET c0 == [Fresh(c) EXCEPT !.menu = "", !.workspace = None, !.lst = None] IN
  SelectFrom(c0, EpTeam, "teams", "workspace", FALSE, FALSE,
             [c0 EXCEPT !.pc = "spinning"])

\* the caller of select_from_list goes on with what it returned
Continue(c) ==
  LET ret == c.sel.ret
      what == c.sel.what
      here == [c EXCEPT !.pc = c.menu]
  IN
  CASE what = "workspace" ->
         IF IsNone(ret) THEN [c EXCEPT !.pc = "exited", !.out = "Exiting..."]
         ELSE IF c.prog = "main"
           THEN [c EXCEPT !.workspace = ret, !.pc = "main_menu",
                          !.menu = "main_menu"]
         ELSE SelectFrom([c EXCEPT !.workspace = ret], EpSpaces(ret[1].id),
                         "spaces", "space", FALSE, FALSE, Again(c))
    [] what = "space" ->
         IF IsNone(ret) THEN Again(c)
         ELSE SelectFrom(c, EpLists(ret[1].id), "lists", "list",
                         FALSE, FALSE, Again(c))
    [] what = "list" ->
         IF IsNone(ret) THEN Again(c)
         ELSE [c EXCEPT !.lst = Some(ret[1].id), !.pc = "menu", !.menu = "menu"]
    [] what = "task_update" ->
         IF IsNone(ret) THEN here
         ELSE BeginUpdate([c EXCEPT !.task = ret], "update_existing_task",
                          EpTask(ret[1].id))
    [] what = "task_delete" ->
         IF IsNone(ret) THEN here
         ELSE [c EXCEPT !.task = ret, !.pc = "confirm", !.asked = TRUE]
    [] what = "task_ai" ->
         IF IsNone(ret) THEN here
         ELSE [c EXCEPT !.task = ret, !.pc = "request", !.asked = TRUE]
    [] what = "goal" ->
         IF IsNone(ret) THEN here
         ELSE BeginUpdate(c, "update_goal", EpGoal(ret[1].id))
    [] what = "doc" ->
         IF IsNone(ret) THEN here
         ELSE LET d == Do([c EXCEPT !.doc = Some(ret[1].id)], "GET",
                          EpDoc(c.workspace[1].id, ret[1].id), NoBody, TRUE)
                  pages == IF Has(d.r.doc, "pages") THEN d.r.doc.pages ELSE <<>>
              IN IF ~d.r.ok THEN [d.c EXCEPT !.pc = c.menu, !.out = "Error"]
                 ELSE IF pages # <<>> THEN select_from_list(d.c, pages, "page")
                 ELSE [d.c EXCEPT !.pc = c.menu, !.out = "No pages found"]
    [] what = "page" ->
         IF IsNone(ret) THEN here
         ELSE BeginUpdate(c, "edit_page",
                          EpPage(c.workspace[1].id, c.doc[1], ret[1].id))

\* the program runs on until it waits for input, has exited, or spins
RECURSIVE Settle(_)
Settle(c) ==
  IF c.pc = "selected" THEN Settle(Continue(c))
  ELSE IF c.pc = "round" THEN Settle(Round(c))
  ELSE c

\* the menu options, by program: update a task, delete a task
UpdateOption(prog) == <<"3">>
DeleteOption(prog) == IF prog = "app" THEN <<"5">> ELSE <<"4">>

\* a menu choice is read: task_management_menu (the AI agent menu in
\* clickup_agent.py), and in main.py the main, docs and goals menus
menu_input(c, text) ==
  LET choice == Strip(text)
      c0 == [Fresh(c) EXCEPT !.input = << text >>]
      tasks == EpTasks(c.lst[1])
  IN
  CASE c.pc = "menu" ->
         IF choice = <<"0">> THEN Again(c0)
         ELSE IF c.prog = "agent"
           THEN IF choice = <<"3">>
                  THEN SelectFrom(c0, tasks, "tasks", "task_ai", FALSE, TRUE,
                                  Again(c0))
                  ELSE c0
         ELSE IF choice = UpdateOption(c.prog)
           THEN SelectFrom(c0, tasks, "tasks", "task_update", FALSE, FALSE, c0)
         ELSE IF choice = DeleteOption(c.prog)
           THEN SelectFrom(c0, tasks, "tasks", "task_delete", FALSE, FALSE, c0)
         ELSE IF c.prog = "main" /\ choice = <<"6">>
           THEN BeginUpdate(c0, "update_list", EpList(c.lst[1]))
         ELSE c0
    [] c.pc = "main_menu" ->
         IF choice = <<"0">> THEN [c0 EXCEPT !.pc = "exited", !.out = "Exiting..."]
         ELSE IF choice = <<"1">>
           THEN SelectFrom(c0, EpSpaces(c.workspace[1].id), "spaces", "space",
                           FALSE, FALSE, c0)
         ELSE IF choice = <<"2">>
           THEN [c0 EXCEPT !.pc = "docs_menu", !.menu = "docs_menu"]
         ELSE IF choice = <<"3">>
           THEN [c0 EXCEPT !.pc = "goals_menu", !.menu = "goals_menu"]
         ELSE c0
    [] c.pc = "docs_menu" ->
         IF choice = <<"0">> THEN Again(c0)
         ELSE IF choice = <<"5">>
           THEN SelectFrom(c0, EpDocs(c.workspace[1].id), "docs", "doc",
                           TRUE, TRUE, c0)
         ELSE c0
    [] c.pc = "goals_menu" ->
         IF choice = <<"0">> THEN Again(c0)
         ELSE IF choice = <<"2">>
           THEN SelectFrom(c0, EpGoals(c.workspace[1].id), "goals", "goal",
                           FALSE, TRUE, c0)
         ELSE c0

\* clickup_agent.py main(): `if not CLICKUP_API_TOKEN: return` and
\* `if not OPENAI_API_KEY: return`
credentials_present(env) ==
  /\ ~Falsy(DictGet(env, "CLICKUP_API_TOKEN"))
  /\ ~Falsy(DictGet(env, "OPENAI_API_KEY"))

\* main() up to its first input(): credentials, client, authentication, and
\* in main.py the choice of the workspace
main(c, env) ==
  LET token == IF c.prog = "agent"
                 THEN Fmt(DictGet(env, "CLICKUP_API_TOKEN"))
                 ELSE API_TOKEN
      c0 == [c EXCEPT !.api = Some(CliClickUpAPI(token)),
                      !.openai = IF c.prog = "agent"
                                   THEN DictGet(env, "OPENAI_API_KEY")
                                   ELSE None]
      d == Do(c0, "GET", EpUser, NoBody, FALSE)
  IN
  IF c.prog = "agent" /\ ~credentials_present(env)
    THEN [c EXCEPT !.pc = "exited", !.out = "not found in .env file!"]
  ELSE IF ~(d.r.ok /\ Has(d.r.doc, "user") /\ Has(d.r.doc.user, "username"))
    THEN [d.c EXCEPT !.pc = "exited", !.out = "Authentication failed"]
  ELSE IF c.prog = "main"
    THEN SelectFrom(d.c, EpTeam, "teams", "workspace", FALSE, FALSE,
                    [d.c EXCEPT !.pc = "exited"])
  ELSE [d.c EXCEPT !.pc = "round"]

----------------------------------------------------------------------------
(* The server *)

Slots == {1, 2}

\* the requests a run of the model takes
MaxServed == 2

\* the token found in the environment at startup
TokenChoices == {ValidToken, "pk_revoked"}

\* CLICKUP_API_TOKEN = os.getenv("CLICKUP_API_TOKEN")
CLICKUP_API_TOKEN == environ.CLICKUP_API_TOKEN

\* the module-level objects as built at import, the token being present:
\* clickup_api = ClickUpAPI(CLICKUP_API_TOKEN)
Startup(slots) ==
  /\ world \in Worlds
  /\ \E token \in TokenChoices :
       /\ token = ValidToken \/ world = NoFaultWorld
       /\ environ = [CLICKUP_API_TOKEN |-> token]
       /\ clickup_api = ClickUpAPI(token)
  /\ active = slots
  /\ hs = [s \in Slots |-> Idle]
  /\ errSeen = FALSE
  /\ served = 0
  /\ initResults = {}
  /\ cli = CliOff

Init == Startup({1})

\* a client that builds its URL by appending to self.base_url in place
PostRebasing(s, body) ==
  /\ s \in active
  /\ hs[s].pc = "idle"
  /\ served < MaxServed
  /\ hs' = [hs EXCEPT ![s] = PostMcp(body, clickup_api)]
  /\ clickup_api' =
       IF hs'[s].pc = "calling"
         THEN [clickup_api EXCEPT !.base_url = "https://api.clickup.com/api/v2/task"]
         ELSE clickup_api
  /\ served' = served + 1
  /\ UNCHANGED <<cli, environ, world, active, errSeen, initResults>>

\* a POST /mcp arrives and is handled up to its first remote call
Post(s, body) ==
  /\ s \in active
  /\ hs[s].pc = "idle"
  /\ served < MaxServed
  /\ hs' = [hs EXCEPT ![s] = PostMcp(body, clickup_api)]
  /\ served' = served + 1
  /\ UNCHANGED <<cli, environ, world, clickup_api, active, errSeen, initResults>>

\* a client that forgets its token when a call fails
RemoteReturnDropsToken(s) ==
  /\ s \in active
  /\ hs[s].pc = "calling"
  /\ hs' = [hs EXCEPT ![s] =
              [CallReturns(hs[s], clickup_api) EXCEPT !.overlapped =
                 @ \/ \E o \in active \ {s} : hs[o].pc = "calling"]]
  /\ clickup_api' =
       IF Remote(hs[s].pending).ok THEN clickup_api
       ELSE [clickup_api EXCEPT !.headers.Authorization = ""]
  /\ UNCHANGED <<cli, environ, world, active, errSeen, served, initResults>>

\* the outstanding remote call of a request returns or fails, and the tool
\* runs on to its next call or to the end of the request
RemoteReturn(s) ==
  /\ s \in active
  /\ hs[s].pc = "calling"
  /\ hs' = [hs EXCEPT ![s] =
              [CallReturns(hs[s], clickup_api) EXCEPT !.overlapped =
                 @ \/ \E o \in active \ {s} : hs[o].pc = "calling"]]
  /\ UNCHANGED <<cli, environ, world, clickup_api, active, errSeen, served, initResults>>

\* a GET /health arrives: the credential check goes out
GetHealth(s) ==
  /\ s \in active
  /\ hs[s].pc = "idle"
  /\ served < MaxServed
  /\ hs' = [hs EXCEPT ![s] = health_check(Idle, clickup_api)]
  /\ served' = served + 1
  /\ UNCHANGED <<cli, environ, world, clickup_api, active, errSeen, initResults>>

\* the credential check returns or fails, and health_check returns its dict
HealthReturn(s) ==
  /\ s \in active
  /\ hs[s].pc = "health_calling"
  /\ hs' = [hs EXCEPT ![s] = HealthReturns(hs[s], clickup_api)]
  /\ UNCHANGED <<cli, environ, world, clickup_api, active, errSeen, served,
                 initResults>>

\* the health document is sent
HealthRespond(s) ==
  /\ s \in active
  /\ hs[s].pc = "health_done"
  /\ hs' = [hs EXCEPT ![s] = Idle]
  /\ UNCHANGED <<cli, environ, world, clickup_api, active, errSeen, served,
                 initResults>>

\* the reply is sent; nothing of the request outlives it
Respond(s) ==
  /\ s \in active
  /\ hs[s].pc \in {"done", "rejected"}
  /\ hs' = [hs EXCEPT ![s] = Idle]
  /\ errSeen' = (errSeen \/ IsSome(hs[s].reply.error))
  /\ initResults' =
       IF hs[s].request.method = "initialize" /\ IsSome(hs[s].reply.result)
         THEN initResults \cup {hs[s].reply.result[1]}
         ELSE initResults
  /\ UNCHANGED <<cli, environ, world, clickup_api, active, served>>

Next ==
  \E s \in Slots :
    \/ \E body \in Bodies : Post(s, body)
    \/ RemoteReturn(s)
    \/ Respond(s)
    \/ GetHealth(s)
    \/ HealthReturn(s)
    \/ HealthRespond(s)

\* the server as uvicorn runs it: mcp_endpoint never awaits, so one request
\* is handled from start to end before the next one is taken
Spec == Init /\ [][Next]_vars

\* the same server, every remote call eventually returning or failing
SpecLive == Spec /\ \A s \in Slots : WF_vars(RemoteReturn(s))

\* a hosting server that runs two requests at once, switching between them
\* whenever one waits for the remote tracker
ConcBodies ==
  { Body(Some(JInt(1)), Some(JStr("tools/call")),
         Some(JMap(Params(Some("update_task"),
           Some(JMap([task_id |-> "K2", name |-> "N", status |-> "done"])))))),
    Body(Some(JInt(2)), Some(JStr("tools/call")),
         Some(JMap(Params(Some("get_task"), Some(JMap([task_id |-> "K1"])))))),
    Body(Some(JInt(1)), Some(JStr("tools/call")),
         Some(JMap(Params(Some("search_workspace"),
           Some(JMap([query |-> <<"f", "I">>])))))),
    Body(Some(JInt(2)), Some(JStr("tools/call")),
         Some(JMap(Params(Some("get_workspace_tasks"), None)))),
    Body(Some(JInt(1)), Some(JStr("tools/call")),
         Some(JMap(Params(Some("get_workspace_members"), None)))),
    Body(Some(JInt(2)), Some(JStr("tools/call")),
         Some(JMap(Params(Some("create_task"), Some(JMap([name |-> "N"])))))),
    Body(None, Some(JStr("tools/call")),
         Some(JMap(Params(Some("delete_task"), None)))),
    Body(Some(JInt(1)), Some(JStr("tools/list")), None),
    Body(Some(JInt(2)), None, None) }

InitConc == Startup(Slots)

NextConc ==
  \E s \in Slots :
    \/ \E body \in ConcBodies : Post(s, body)
    \/ RemoteReturn(s)
    \/ Respond(s)

SpecConc == InitConc /\ [][NextConc]_vars

----------------------------------------------------------------------------
(* The interactive programs as processes: what is typed, and the steps *)

Programs == {"app", "main", "agent"}

\* the environments clickup_agent.py may be started in
FullEnviron ==
  [PATH |-> "/usr/bin", CLICKUP_API_TOKEN |-> ValidToken,
   OPENAI_API_KEY |-> "sk_key"]
CliEnvirons ==
  { FullEnviron,
    [PATH |-> "/usr/bin", CLICKUP_API_TOKEN |-> ValidToken],
    [PATH |-> "/usr/bin", OPENAI_API_KEY |-> "sk_key"],
    [PATH |-> "/usr/bin"],
    [PATH |-> "/usr/bin", CLICKUP_API_TOKEN |-> "", OPENAI_API_KEY |-> "sk_key"],
    [PATH |-> "/usr/bin", CLICKUP_API_TOKEN |-> ValidToken, OPENAI_API_KEY |-> ""],
    [PATH |-> "/usr/bin", CLICKUP_API_TOKEN |-> "pk_revoked",
     OPENAI_API_KEY |-> "sk_key"] }

\* the trackers the interactive programs meet
CliFaults ==
  { [ep |-> EpUser, kind |-> "http"],
    [ep |-> EpTeam, kind |-> "http"],
    [ep |-> EpTasks("L1"), kind |-> "http"],
    [ep |-> EpTasks("L1"), kind |-> "shape"],
    [ep |-> EpTask("K1"), kind |-> "http"],
    [ep |-> EpTask("K3"), kind |-> "shape"],
    [ep |-> EpList("L1"), kind |-> "http"],
    [ep |-> EpGoal("G1"), kind |-> "http"],
    [ep |-> EpPage("T1", "D1", "P1"), kind |-> "http"] }
\* the account the interactive programs are used with has one workspace
CliTeams == << Teams[1] >>
CliNoFaultWorld == [teams |-> CliTeams, failing |-> None, fault |-> "none"]
CliWorlds ==
  {CliNoFaultWorld, NoTeamWorld}
    \cup {[teams |-> CliTeams, failing |-> Some(f.ep), fault |-> f.kind] :
            f \in CliFaults}

\* what is typed at select_from_list's prompt
SelectTexts ==
  { <<>>, <<"a", "b", "c">>, <<"0">>, <<"1">>, <<"2">>, <<" ", "2", " ">>,
    <<"+", "2">>, <<"3">>, <<"5">>, <<"-", "1">>, <<"2", ".", "0">>,
    <<"sup2">>, <<"0", "0">> }

\* the menu options that are modelled, by menu and program
Options(c) ==
  CASE c.pc = "menu" /\ c.prog = "app" -> {"0", "3", "5"}
    [] c.pc = "menu" /\ c.prog = "main" -> {"0", "3", "4", "6"}
    [] c.pc = "menu" /\ c.prog = "agent" -> {"0", "3"}
    [] c.pc = "main_menu" -> {"0", "1", "2", "3"}
    [] c.pc = "docs_menu" -> {"0", "5"}
    [] c.pc = "goals_menu" -> {"0", "2"}
    [] OTHER -> {}

\* what is typed at a menu: an option, an option with blanks around it, or
\* something that is no option
MenuTexts(c) ==
  {<< o >> : o \in Options(c)}
    \cup {<<" ", o, " ">> : o \in Options(c) \ {"0"}}
    \cup {<<"x">>, <<>>}

\* what is typed at "Are you sure ... (yes/no)"
ConfirmTexts ==
  { <<"y", "e", "s">>, <<"Y", "E", "S">>, <<"Y", "e", "s">>, <<"n", "o">>, <<>>, <<"y">>,
    <<"y", "e", "s", " ">>, <<" ", "y", "e", "s">> }

NameTexts == { <<" ">>, <<"N">> }
DescriptionTexts == { <<>>, <<"d">> }
StatusTexts == { <<>>, <<"D", "O">> }
StartDateTexts ==
  { <<>>, <<"C", "l", "e", "a", "r">>, <<"2", "0", "2", "5", "-", "0", "1", "-", "1", "5">>, <<"2", "0", "2", "5", "-", "0", "2", "-", "3", "0">>, <<"0", "0", "0", "1", "-", "0", "1", "-", "0", "1">>,
    <<"s", "o", "o", "n">> }
StartTimeTexts == { <<>>, <<"1", "0", ":", "3", "0">>, <<"2", "5", ":", "0", "0">> }
DueDateTexts == { <<>>, <<"c", "l", "e", "a", "r">>, <<"2", "0", "2", "4", "-", "2", "-", "2", "9">> }
DueTimeTexts == { <<>> }
PriorityTexts ==
  { <<>>, <<"2">>, <<"9">>, <<"x">>, <<"-", "1">>, <<"0", "4">>, <<"sup2">> }

\* what is typed at the prompts of an update operation
FieldInputs(prog, fn) ==
  CASE fn = "update_existing_task" /\ prog = "main" ->
         { <<n, d, st, sd, stt, dd, dt>> :
             n \in NameTexts, d \in DescriptionTexts, st \in StatusTexts,
             sd \in StartDateTexts, stt \in StartTimeTexts,
             dd \in DueDateTexts, dt \in DueTimeTexts }
    [] fn = "update_existing_task" /\ prog # "main" ->
         { <<n, d, st>> :
             n \in NameTexts, d \in DescriptionTexts, st \in StatusTexts }
    [] fn = "update_list" ->
         { <<n, d, pr>> :
             n \in NameTexts, d \in DescriptionTexts, pr \in PriorityTexts }
    [] OTHER ->
         { <<n, d>> : n \in NameTexts, d \in DescriptionTexts }

\* what is typed at "How to update"
RequestTexts == { <<>>, <<" ">>, <<"d", "o", "n", "e">> }

\* what the completion request comes back with
Completions ==
  { [ok |-> FALSE, text |-> <<>>] }
    \cup { [ok |-> TRUE, text |-> t] :
             t \in { <<"{}">>,
                     <<" ", "{}", "\n">>,
                     <<"{\"status\": \"complete\"}">>,
                     <<Fence, "json", "\n", "{}", "\n", Fence>>,
                     <<Fence, "\n", "{\"status\": \"complete\"}", "\n", Fence>>,
                     <<"no change">>, <<"[]">>, <<"[1]">>, <<"null">> } }

\* the server's variables while an interactive program runs
NoServer ==
  /\ clickup_api = None
  /\ active = {}
  /\ hs = [s \in Slots |-> Idle]
  /\ errSeen = FALSE
  /\ served = 0
  /\ initResults = {}

\* one of the programs is started; clickup_app.py and main.py do not read
\* the environment
InitCli ==
  /\ world \in CliWorlds
  /\ environ \in CliEnvirons
  /\ \E prog \in Programs :
       /\ cli = Launch(prog)
       /\ prog = "agent" \/ environ = FullEnviron
       /\ environ = FullEnviron \/ world = CliNoFaultWorld
  /\ NoServer

ServerUnchanged ==
  UNCHANGED <<environ, world, clickup_api, active, hs, errSeen, served,
              initResults>>

\* the program starts and runs to its first prompt, or exits
CliMain ==
  /\ cli.pc = "start"
  /\ cli' = Settle(main(Step(cli), environ))
  /\ ServerUnchanged

\* a line is entered at select_from_list's prompt
CliSelect(text) ==
  /\ cli.pc = "select"
  /\ cli' = Settle(select_input(Step(cli), text))
  /\ ServerUnchanged

\* a line is entered at a menu
CliMenu(text) ==
  /\ cli.pc \in {"menu", "main_menu", "docs_menu", "goals_menu"}
  /\ text \in MenuTexts(cli)
  /\ cli' = Settle(menu_input(Step(cli), text))
  /\ ServerUnchanged

\* a line is entered at the delete confirmation
CliConfirm(text) ==
  /\ cli.pc = "confirm"
  /\ cli' = Settle(confirm_input(Step(cli), text))
  /\ ServerUnchanged

\* the lines asked for by an update operation are entered
CliFields(in) ==
  /\ cli.pc = "fields"
  /\ in \in FieldInputs(cli.prog, cli.fn)
  /\ cli' = Settle(fields_input(Step(cli), in))
  /\ ServerUnchanged

\* a line is entered at "How to update"
CliRequest(text) ==
  /\ cli.pc = "request"
  /\ cli' = Settle(request_input(Step(cli), text))
  /\ ServerUnchanged

\* the completion request returns or fails
CliCompletion(resp) ==
  /\ cli.pc = "llm"
  /\ cli' = Settle(completion(Step(cli), resp))
  /\ ServerUnchanged

\* everything that can be typed at some menu, at some update operation
AllMenuTexts ==
  UNION {MenuTexts([pc |-> pc, prog |-> prog]) :
           pc \in {"menu", "main_menu", "docs_menu", "goals_menu"},
           prog \in Programs}
AllFieldInputs ==
  UNION {FieldInputs(prog, fn) :
           prog \in Programs,
           fn \in {"update_existing_task", "update_list", "update_goal"}}

NextCli ==
  \/ CliMain
  \/ \E text \in SelectTexts : CliSelect(text)
  \/ \E text \in AllMenuTexts : CliMenu(text)
  \/ \E text \in ConfirmTexts : CliConfirm(text)
  \/ \E in \in AllFieldInputs : CliFields(in)
  \/ \E text \in RequestTexts : CliRequest(text)
  \/ \E resp \in Completions : CliCompletion(resp)

\* an interactive program, run from its start
SpecCli == InitCli /\ [][NextCli]_vars

----------------------------------------------------------------------------
(* The start of the server in any environment *)

ServerEnvirons ==
  { [PATH |-> "/usr/bin", CLICKUP_API_TOKEN |-> ValidToken],
    [PATH |-> "/usr/bin", CLICKUP_API_TOKEN |-> "pk_revoked"],
    [PATH |-> "/usr/bin", CLICKUP_API_TOKEN |-> ""],
    [PATH |-> "/usr/bin"] }

\* a module that builds its client without looking at the token
token_missing_ignored(env) == FALSE

\* `if not CLICKUP_API_TOKEN:` (print, exit(1))
token_missing(env) == Falsy(DictGet(env, "CLICKUP_API_TOKEN"))

\* the module-level code of clickup_mcp_server.py in any environment:
\* either exit(1) before the client and the app are built, so that uvicorn
\* never serves, or the objects Startup describes
StartupOrExit(slots) ==
  /\ world \in Worlds
  /\ environ \in ServerEnvirons
  /\ DictGet(environ, "CLICKUP_API_TOKEN") = Some(ValidToken)
       \/ world = NoFaultWorld
  /\ IF token_missing(environ)
       THEN clickup_api = None /\ active = {}
       ELSE /\ clickup_api =
                 ClickUpAPI(Fmt(DictGet(environ, "CLICKUP_API_TOKEN")))
            /\ active = slots
  /\ hs = [s \in Slots |-> Idle]
  /\ errSeen = FALSE
  /\ served = 0
  /\ initResults = {}
  /\ cli = CliOff

\* the server or one of the interactive programs is started
InitStartup == StartupOrExit({1}) \/ InitCli

NextStartup == Next \/ NextCli

\* any of the programs, started in any environment
SpecStartup == InitStartup /\ [][NextStartup]_vars

----------------------------------------------------------------------------
(* One request handled alone, from its arrival to its reply, by a server     *)
(* whose client object is api                                                *)

RECURSIVE RunToEnd(_, _)
RunToEnd(l, api) ==
  IF l.pc = "calling" THEN RunToEnd(CallReturns(l, api), api) ELSE l

HandledAlone(body, api) == RunToEnd(PostMcp(body, api), api)

----------------------------------------------------------------------------
(* Vocabulary of the properties *)

\* the names of the catalog's descriptors
ToolNames == {get_tools_list[i].name : i \in 1..Len(get_tools_list)}

KnownMethods == {"initialize", "tools/list", "tools/call"}

\* the client object as built at startup
StartupApi == ClickUpAPI(CLICKUP_API_TOKEN)

\* the handling of the request in slot s has ended
Ended(s) == hs[s].pc \in {"done", "rejected"}
\* mcp_endpoint returned an MCPResponse for the request in slot s
Done(s) == hs[s].pc = "done"

IsToolsCall(s) == Done(s) /\ hs[s].request.method = "tools/call"

LastCall(l) == l.calls[Len(l.calls)]

\* the reply is the RPC error envelope for exception e, and nothing else
IsRpcError(reply, message) ==
  /\ reply.http = 200
  /\ reply.jsonrpc = "2.0"
  /\ IsNone(reply.result)
  /\ reply.error = Some([code |-> -32603, message |-> message])

----------------------------------------------------------------------------
(* C1 *)

----------------------------------------------------------------------------
(* C2 *)

\* C2: every MCPResponse mcp_endpoint returns has exactly one of result and
\* error set: never both, never neither.
C2_ExactlyOneOfResultAndError ==
  \A s \in Slots :
    Done(s) => (IsSome(hs[s].reply.result) <=> IsNone(hs[s].reply.error))

\* a tool call that failed at the remote tracker after issuing calls
C2_Witness ==
  \E s \in Slots :
    /\ IsToolsCall(s)
    /\ Len(hs[s].calls) >= 2
    /\ IsSome(hs[s].reply.error)
    /\ IsNone(hs[s].reply.result)

----------------------------------------------------------------------------
(* C3 *)

\* C3: a request that carries an (integer) id is answered with that same id,
\* whether mcp_endpoint returns a result or an error.
C3_IdEchoed ==
  \A s \in Slots :
    Done(s) /\ FieldKind(hs[s].body, "id") = "int" =>
      hs[s].reply.id = Some(hs[s].body["id"].val)

\* an error response to a request with id 2
C3_Witness ==
  \E s \in Slots :
    /\ Done(s)
    /\ FieldKind(hs[s].body, "id") = "int"
    /\ hs[s].body["id"].val = 2
    /\ IsSome(hs[s].reply.error)
    /\ hs[s].reply.id = Some(2)

----------------------------------------------------------------------------
(* C4 *)

\* C4: a tools/call whose tool name is not in the catalog, and a request
\* whose method is none of the three, each end in error code -32603 with a
\* message naming the tool / the method, without result and without any
\* remote call.
C4_UnknownToolOrMethod ==
  \A s \in Slots :
    LET l == hs[s] IN
    /\ (IsToolsCall(s) /\ Fmt(l.tool_name) \notin ToolNames =>
          /\ IsRpcError(l.reply, <<"Unknown tool: ", Fmt(l.tool_name)>>)
          /\ l.calls = <<>>)
    /\ (IsToolsCall(s) /\ IsNone(l.tool_name) =>
          /\ IsRpcError(l.reply, <<"Unknown tool: ", "None">>)
          /\ l.calls = <<>>)
    /\ (Done(s) /\ l.request.method \notin KnownMethods =>
          /\ IsRpcError(l.reply, <<"Unknown method: ", l.request.method>>)
          /\ l.calls = <<>>)

\* delete_task, which no descriptor names, was called
C4_Witness ==
  \E s \in Slots :
    /\ IsToolsCall(s)
    /\ hs[s].tool_name = Some("delete_task")
    /\ IsSome(hs[s].reply.error)

----------------------------------------------------------------------------
(* C5 *)

\* C5: handling requests leaves the server's only shared object as it was
\* built at startup, and a request handled after another one ended in an
\* error response gets the reply, and issues the remote calls, that it gets
\* from a server that never saw any other request.
C5_NoStateAcrossRequests ==
  /\ clickup_api = StartupApi
  /\ \A s \in Slots :
       errSeen /\ Ended(s) =>
         LET alone == HandledAlone(hs[s].body, StartupApi) IN
         /\ hs[s].reply = alone.reply
         /\ hs[s].calls = alone.calls

\* after a request that ended in an error response, a tool call succeeded
C5_Witness ==
  \E s \in Slots :
    /\ errSeen
    /\ IsToolsCall(s)
    /\ hs[s].calls # <<>>
    /\ IsSome(hs[s].reply.result)

----------------------------------------------------------------------------
(* C6 *)

\* C6: with two requests in flight, switched at every remote call, each
\* request gets the reply, and issues the remote calls, that it gets when
\* handled alone against the same tracker.
C6_InterleavingInvisible ==
  \A s \in Slots :
    Ended(s) =>
      LET alone == HandledAlone(hs[s].body, StartupApi) IN
      /\ hs[s].reply = alone.reply
      /\ hs[s].calls = alone.calls
      /\ hs[s].arguments = alone.arguments

\* a fan-out ran to its end while the other request was waiting on a call
C6_Witness ==
  \E s \in Slots :
    /\ Done(s)
    /\ hs[s].overlapped
    /\ Len(hs[s].calls) >= 3
    /\ \E o \in Slots \ {s} : hs[o].pc = "calling" /\ hs[o].overlapped

----------------------------------------------------------------------------
(* C7 *)

----------------------------------------------------------------------------
(* C8 *)

\* the same body with "arguments": {} put into its params
WithEmptyArguments(body) ==
  [body EXCEPT !["params"] =
     JMap([f \in DOMAIN body["params"].val \cup {"arguments"} |->
             IF f = "arguments" THEN JMap(EmptyDict)
             ELSE body["params"].val[f]])]

\* the params of the request in slot s is an object without "arguments"
NoArgumentsEntry(s) ==
  /\ IsToolsCall(s)
  /\ FieldKind(hs[s].body, "params") = "map"
  /\ "arguments" \notin DOMAIN hs[s].body["params"].val

\* C8: a tools/call without an arguments entry issues the remote calls and
\* gets the reply of the same call with arguments {}.
C8_AbsentArgumentsAreEmptyMap ==
  \A s \in Slots :
    NoArgumentsEntry(s) =>
      LET twin == HandledAlone(WithEmptyArguments(hs[s].body), clickup_api) IN
      /\ hs[s].reply = twin.reply
      /\ hs[s].calls = twin.calls

\* get_task without an arguments entry reached the tracker
C8_Witness ==
  \E s \in Slots :
    /\ NoArgumentsEntry(s)
    /\ hs[s].tool_name = Some("get_task")
    /\ Len(hs[s].calls) = 1

----------------------------------------------------------------------------
(* C9 *)

\* execute_tool raised its "Unknown tool" ValueError for the request in s
UnknownToolRaised(s) ==
  hs[s].fault = ValueError(<<"Unknown tool: ", Fmt(hs[s].tool_name)>>)

\* C9: execute_tool fails with "Unknown tool" exactly for the names that no
\* descriptor of the catalog carries.
C9_CatalogIsWhatExecutes ==
  \A s \in Slots :
    IsToolsCall(s) =>
      (UnknownToolRaised(s) <=>
         (IsNone(hs[s].tool_name) \/ hs[s].tool_name[1] \notin ToolNames))

\* create_list, the last descriptor, was executed
C9_Witness ==
  \E s \in Slots :
    /\ IsToolsCall(s)
    /\ hs[s].tool_name = Some("create_list")
    /\ ~UnknownToolRaised(s)
    /\ hs[s].calls # <<>>

----------------------------------------------------------------------------
(* C10 *)

\* the descriptors' names in the order of the source
CatalogOrder ==
  << "search_workspace", "get_workspace_hierarchy", "get_workspace_tasks",
     "create_task", "get_task", "update_task", "create_task_comment",
     "get_task_comments", "get_workspace_members", "create_list" >>

\* C10: every tools/list, whatever was requested before it, returns the one
\* sequence of descriptors of the catalog, in its order; the sequence is not
\* empty, no two descriptors share a name, and no remote call is issued.
C10_ToolsListIsFixed ==
  \A s \in Slots :
    Done(s) /\ hs[s].request.method = "tools/list" =>
      /\ IsSome(hs[s].reply.result)
      /\ LET tools == hs[s].reply.result[1].tools IN
         /\ tools = get_tools_list
         /\ Len(tools) >= 1
         /\ [i \in 1..Len(tools) |-> tools[i].name] = CatalogOrder
         /\ \A i, j \in 1..Len(tools) : tools[i].name = tools[j].name => i = j
      /\ hs[s].calls = <<>>

\* tools/list answered after an earlier request ended in an error response
C10_Witness ==
  \E s \in Slots :
    /\ Done(s)
    /\ hs[s].request.method = "tools/list"
    /\ errSeen
    /\ served = 2

----------------------------------------------------------------------------
(* C11 *)

\* C11: initialize never fails and is idempotent: whatever its params and id,
\* whatever the token, the remote state and the requests handled before, it
\* is answered with one and the same result payload, without error and
\* without any remote call.
C11_InitializeFixedAndLocal ==
  /\ Cardinality(initResults) <= 1
  /\ \A s \in Slots :
       Done(s) /\ hs[s].request.method = "initialize" =>
         /\ IsNone(hs[s].reply.error)
         /\ hs[s].fault = NoExc
         /\ IsSome(hs[s].reply.result)
         /\ initResults \subseteq {hs[s].reply.result[1]}
         /\ hs[s].reply.result[1].serverInfo.name = "clickup-mcp-server"
         /\ hs[s].calls = <<>>

\* a second initialize, with other params and another id than the first one
\* could have had, answered while the tracker's team endpoint is failing
C11_Witness ==
  \E s \in Slots :
    /\ Done(s)
    /\ hs[s].request.method = "initialize"
    /\ initResults # {}
    /\ hs[s].request.id = Some(2)
    /\ IsSome(hs[s].request.params)
    /\ DOMAIN hs[s].request.params[1] # {}
    /\ IsSome(world.failing)
    /\ IsSome(hs[s].reply.result)

----------------------------------------------------------------------------
(* C12 *)

\* the tools/call in slot s runs tool n, has got past the dispatcher and its
\* arguments came as a JSON object
Runs(s, n) ==
  /\ hs[s].pc \in {"calling", "done"}
  /\ hs[s].request.method = "tools/call"
  /\ hs[s].tool_name = Some(n)
  /\ hs[s].arguments.kind = "map"

\* C12: create_task with list_id and name issues exactly one remote call, a
\* POST to list/{list_id}/task; its body has the name as given, the status
\* given or "to do", the description given or "", a priority exactly when one
\* was given, and no other field (no list_id in particular).
C12_CreateTaskCall ==
  \A s \in Slots :
    LET l == hs[s]  a == l.arguments.val IN
    Runs(s, "create_task") /\ {"list_id", "name"} \subseteq DOMAIN a =>
      /\ Len(l.calls) = 1
      /\ l.calls[1].verb = "POST"
      /\ l.calls[1].endpoint = <<"list/", a["list_id"], "/task">>
      /\ l.calls[1].url = <<BaseUrl, "/", "list/", a["list_id"], "/task">>
      /\ LET body == l.calls[1].body IN
           /\ DOMAIN body = {"name", "description", "status"}
                               \cup ({"priority"} \cap DOMAIN a)
           /\ body["name"] = a["name"]
           /\ body["status"] =
                IF "status" \in DOMAIN a THEN a["status"] ELSE "to do"
           /\ body["description"] =
                IF "description" \in DOMAIN a THEN a["description"] ELSE ""
           /\ ("priority" \in DOMAIN a => body["priority"] = a["priority"])

\* a task created from list_id and name alone: the tracker received the
\* default status and the empty description
C12_Witness ==
  \E s \in Slots :
    /\ Runs(s, "create_task") /\ Done(s)
    /\ DOMAIN hs[s].arguments.val = {"list_id", "name"}
    /\ IsSome(hs[s].tool_result)
    /\ hs[s].tool_result[1].created =
         [name |-> "N", description |-> "", status |-> "to do"]

----------------------------------------------------------------------------
(* C13 *)

\* the arguments object as the client posted it
PostedArguments(l) ==
  ArgumentsOf(IF IsNone(l.request.params) THEN EmptyDict
              ELSE l.request.params[1])

\* C13: update_task with a task_id issues one PUT to task/{task_id}; its body
\* holds every other posted key with its value unchanged, and no task_id.
C13_UpdateTaskCall ==
  \A s \in Slots :
    LET l == hs[s]  a == PostedArguments(l).val IN
    Runs(s, "update_task") /\ "task_id" \in DOMAIN a =>
      /\ Len(l.calls) = 1
      /\ l.calls[1].verb = "PUT"
      /\ l.calls[1].endpoint = <<"task/", a["task_id"]>>
      /\ l.calls[1].url = <<BaseUrl, "/", "task/", a["task_id"]>>
      /\ LET body == l.calls[1].body IN
           /\ DOMAIN body = (DOMAIN a) \ {"task_id"}
           /\ \A key \in DOMAIN body : body[key] = a[key]

\* task K2 was renamed and closed: the tracker received name and status only
C13_Witness ==
  \E s \in Slots :
    /\ Runs(s, "update_task") /\ Done(s)
    /\ PostedArguments(hs[s]).val =
         [task_id |-> "K2", name |-> "N", status |-> "done"]
    /\ IsSome(hs[s].tool_result)
    /\ hs[s].tool_result[1].updated = [name |-> "N", status |-> "done"]

----------------------------------------------------------------------------
(* C14 *)

\* what the tracker holds below a sequence of spaces / of lists, in order
RECURSIVE ListsOfSpaces(_)
ListsOfSpaces(spaces) ==
  IF Len(spaces) = 0 THEN <<>>
  ELSE ListsOf(spaces[1].id) \o ListsOfSpaces(Tail(spaces))

RECURSIVE TasksOfLists(_)
TasksOfLists(lists) ==
  IF Len(lists) = 0 THEN <<>>
  ELSE TasksOf(lists[1].id) \o TasksOfLists(Tail(lists))

\* the spaces, lists and tasks of the first workspace
FirstSpaces == SpacesOf(world.teams[1].id)
FirstLists == ListsOfSpaces(FirstSpaces)
FirstTasks == TasksOfLists(FirstLists)

\* name contains query, letter case ignored
ContainsIgnoringCase(name, query) ==
  \E i \in 1..(Len(name) + 1) : \E j \in (i - 1)..Len(name) :
    Lower(SubSeq(name, i, j)) = Lower(query)

\* the tool call in slot s returned a value to the dispatcher
Returned(s, n) == Runs(s, n) /\ Done(s) /\ IsSome(hs[s].tool_result)

\* no remote call of the first workspace's fan-out can fail
Healthy == world = NoFaultWorld /\ CLICKUP_API_TOKEN = ValidToken

\* C14: search_workspace(query) returns {tasks, lists, spaces}: the tasks and
\* the lists of the first workspace whose name contains query, letter case
\* ignored, in the order they were fetched, and all the spaces of the first
\* workspace unfiltered; with no match tasks and lists are empty and spaces
\* is still complete. With a healthy tracker it does return.
C14_SearchResult ==
  \A s \in Slots :
    LET l == hs[s] IN
    /\ Returned(s, "search_workspace") =>
         /\ IsSome(l.query)
         /\ l.tool_result[1] =
              [ tasks |-> SelectSeq(FirstTasks,
                            LAMBDA t : ContainsIgnoringCase(t.name, l.query[1])),
                lists |-> SelectSeq(FirstLists,
                            LAMBDA t : ContainsIgnoringCase(t.name, l.query[1])),
                spaces |-> FirstSpaces ]
    /\ Runs(s, "search_workspace") /\ Done(s) /\ Healthy
         /\ "query" \in DOMAIN l.arguments.val
         => IsSome(l.tool_result)

\* the query "X" found lists in one space and tasks in two, in fetch order,
\* and nothing of the second workspace
C14_Witness ==
  \E s \in Slots :
    /\ Returned(s, "search_workspace")
    /\ hs[s].query = Some(<<"X">>)
    /\ Len(hs[s].tool_result[1].lists) = 2
    /\ hs[s].tool_result[1].lists[1].id = "L1"
    /\ hs[s].tool_result[1].lists[2].id = "L2"
    /\ Len(hs[s].tool_result[1].tasks) = 2
    /\ hs[s].tool_result[1].tasks[1].id = "K1"
    /\ hs[s].tool_result[1].tasks[2].id = "K3"
    /\ Len(hs[s].tool_result[1].spaces) = 2

----------------------------------------------------------------------------
(* C15 *)

\* the endpoints a walk over spaces, their lists and the lists' tasks calls
RECURSIVE TaskCallsOf(_)
TaskCallsOf(lists) ==
  IF Len(lists) = 0 THEN <<>>
  ELSE <<EpTasks(lists[1].id)>> \o TaskCallsOf(Tail(lists))

RECURSIVE FanOutOf(_)
FanOutOf(spaces) ==
  IF Len(spaces) = 0 THEN <<>>
  ELSE <<EpLists(spaces[1].id)>> \o TaskCallsOf(ListsOf(spaces[1].id))
         \o FanOutOf(Tail(spaces))

FullFanOut == <<EpTeam, EpSpaces(world.teams[1].id)>> \o FanOutOf(FirstSpaces)

\* the endpoints of the calls issued so far, in order
Endpoints(l) == [i \in 1..Len(l.calls) |-> l.calls[i].endpoint]

\* C15 as stated: whenever list_id is present in the filters, exactly one
\* remote call is issued, for the tasks of that list.
C15_PresentListIdIsOneCall ==
  \A s \in Slots :
    LET l == hs[s]  a == l.arguments.val IN
    Runs(s, "get_workspace_tasks") /\ "list_id" \in DOMAIN a =>
      /\ Len(l.calls) = 1
      /\ l.calls[1].endpoint = EpTasks(a["list_id"])

\* C15 amended: when list_id is present and not empty, get_workspace_tasks
\* issues exactly one remote call, GET list/{list_id}/task, and returns that
\* list's tasks; when list_id is absent or the empty string, it walks the
\* first workspace (team, spaces, each space's lists, each list's tasks) and
\* returns the tasks of every list, in space order then list order.
C15_NonEmptyListIdIsOneCall ==
  \A s \in Slots :
    LET l == hs[s]  a == l.arguments.val IN
    Runs(s, "get_workspace_tasks") =>
      IF "list_id" \in DOMAIN a /\ a["list_id"] # ""
        THEN /\ Len(l.calls) = 1
             /\ l.calls[1].verb = "GET"
             /\ l.calls[1].endpoint = EpTasks(a["list_id"])
             /\ (Done(s) /\ IsSome(l.tool_result) =>
                   l.tool_result[1] = TasksOf(a["list_id"]))
             /\ (Done(s) /\ Healthy /\ a["list_id"] \in ListIds =>
                   IsSome(l.tool_result))
        ELSE /\ l.calls[1].endpoint = EpTeam
             /\ (Done(s) /\ IsSome(l.tool_result) =>
                   /\ l.tool_result[1] = FirstTasks
                   /\ Endpoints(l) = FullFanOut)
             /\ (Done(s) /\ Healthy => IsSome(l.tool_result))

\* list_id was posted as the empty string and the whole first workspace was
\* walked: seven calls, the tasks of three lists
C15_Witness ==
  \E s \in Slots :
    /\ Returned(s, "get_workspace_tasks")
    /\ "list_id" \in DOMAIN hs[s].arguments.val
    /\ hs[s].arguments.val["list_id"] = ""
    /\ Len(hs[s].calls) = 7
    /\ Len(hs[s].tool_result[1]) = 3
    /\ hs[s].tool_result[1][3].id = "K3"

----------------------------------------------------------------------------
(* C16 *)

\* the tools/call in slot s ran tool n and n returned a value
ReturnedFrom(s, n) ==
  /\ IsToolsCall(s)
  /\ hs[s].tool_name = Some(n)
  /\ IsSome(hs[s].tool_result)

\* C16: get_workspace_hierarchy returns {workspace, spaces}: workspace is the
\* document of the first workspace; spaces has one entry per space of that
\* workspace, in the order fetched, each {id, name, lists} with the space's
\* id, its name and the lists fetched for it. With a healthy tracker it
\* does return, whatever was posted as arguments.
C16_HierarchyResult ==
  \A s \in Slots :
    LET l == hs[s] IN
    /\ ReturnedFrom(s, "get_workspace_hierarchy") =>
         /\ DOMAIN l.tool_result[1] = {"workspace", "spaces"}
         /\ l.tool_result[1].workspace = world.teams[1]
         /\ l.tool_result[1].spaces =
              [ i \in 1..Len(FirstSpaces) |->
                  [ id |-> FirstSpaces[i].id,
                    name |-> FirstSpaces[i].name,
                    lists |-> ListsOf(FirstSpaces[i].id) ] ]
         /\ Endpoints(l) =
              <<EpTeam, EpSpaces(world.teams[1].id)>>
                \o [i \in 1..Len(FirstSpaces) |-> EpLists(FirstSpaces[i].id)]
    /\ IsToolsCall(s) /\ l.tool_name = Some("get_workspace_hierarchy")
         /\ Healthy
         => IsSome(l.tool_result)

\* the hierarchy of workspace T1: two spaces, the second one holding list L3
C16_Witness ==
  \E s \in Slots :
    /\ ReturnedFrom(s, "get_workspace_hierarchy")
    /\ hs[s].tool_result[1].workspace.id = "T1"
    /\ Len(hs[s].tool_result[1].spaces) = 2
    /\ hs[s].tool_result[1].spaces[1].id = "S1"
    /\ Len(hs[s].tool_result[1].spaces[1].lists) = 2
    /\ hs[s].tool_result[1].spaces[2].lists[1].id = "L3"

----------------------------------------------------------------------------
(* C17 *)

\* the tools that hand their arguments to one endpoint
DirectTools ==
  {"get_task", "create_task_comment", "get_task_comments", "create_list"}

\* C17 as stated: each of get_task, update_task (given a task_id),
\* create_task_comment, get_task_comments, get_workspace_members and
\* create_list has issued exactly one remote call when it ends.
C17_SixToolsOneCall ==
  \A s \in Slots :
    LET l == hs[s] IN
    /\ \A n \in DirectTools : Runs(s, n) /\ Done(s) => Len(l.calls) = 1
    /\ Runs(s, "update_task") /\ Done(s)
         /\ "task_id" \in DOMAIN PostedArguments(l).val
         => Len(l.calls) = 1
    /\ IsToolsCall(s) /\ l.tool_name = Some("get_workspace_members")
         => Len(l.calls) = 1

\* C17 amended: get_task, create_task_comment, get_task_comments and
\* create_list issue exactly one remote call per invocation, and so does
\* update_task when it is given a task_id (without one it issues none);
\* get_workspace_members issues two, GET team and then GET team/{id} for
\* the first workspace, and only one when GET team fails or lists no
\* workspace.
C17_OneCallButMembersTwo ==
  \A s \in Slots :
    LET l == hs[s] IN
    /\ \A n \in DirectTools : Runs(s, n) => Len(l.calls) = 1
    /\ Runs(s, "update_task") =>
         Len(l.calls) = IF "task_id" \in DOMAIN PostedArguments(l).val
                          THEN 1 ELSE 0
    /\ l.pc \in {"calling", "done"} /\ l.request.method = "tools/call"
         /\ l.tool_name = Some("get_workspace_members") =>
           /\ Len(l.calls) \in {1, 2}
           /\ l.calls[1].endpoint = EpTeam
           /\ (Len(l.calls) = 2 => l.calls[2].endpoint = EpMembers(l.teams[1].id)
                                     /\ l.teams = world.teams)
           /\ (Done(s) /\ Len(l.calls) = 1 =>
                 ~Remote(l.calls[1]).ok \/ world.teams = <<>>)
           /\ (Done(s) /\ IsSome(l.tool_result) => Len(l.calls) = 2)
           /\ (Done(s) /\ Healthy => IsSome(l.tool_result))

\* the members of workspace T1 were returned after two remote calls
C17_Witness ==
  \E s \in Slots :
    /\ ReturnedFrom(s, "get_workspace_members")
    /\ Endpoints(hs[s]) = <<EpTeam, EpMembers("T1")>>
    /\ hs[s].tool_result[1].team.id = "T1"

----------------------------------------------------------------------------
(* C18 *)

\* the verb each mutating tool uses
MutatingVerb(n) ==
  CASE n = "update_task" -> "PUT"
    [] n \in {"create_task", "create_task_comment", "create_list"} -> "POST"
    [] OTHER -> "GET"

\* C18: only create_task, update_task, create_task_comment and create_list
\* issue POST or PUT calls (and they issue nothing else); every other tool,
\* whatever its arguments, issues only GET calls, which carry no body; no
\* request ever issues a DELETE. A call issued for anything but a tool (the
\* health check) is a GET too.
C18_OnlyFourToolsMutate ==
  \A s \in Slots :
    LET l == hs[s] IN
    \A i \in 1..Len(l.calls) :
      /\ l.calls[i].verb \in {"GET", "POST", "PUT"}
      /\ IF l.request.method = "tools/call"
           THEN /\ IsSome(l.tool_name)
                /\ l.tool_name[1] \in ToolNames
                /\ l.calls[i].verb = MutatingVerb(l.tool_name[1])
           ELSE l.calls[i].verb = "GET"
      /\ (l.calls[i].verb = "GET" => l.calls[i].body = NoBody)

\* get_workspace_tasks, called with filters it does not use, walked the
\* workspace with GET calls only
C18_Witness ==
  \E s \in Slots :
    /\ Returned(s, "get_workspace_tasks")
    /\ DOMAIN hs[s].arguments.val = {"space_id", "assignee"}
    /\ Len(hs[s].calls) = 7
    /\ \A i \in 1..7 : hs[s].calls[i].verb = "GET"

----------------------------------------------------------------------------
(* C19 *)

\* slot s runs a tool that walks the workspace
FanOut(s) ==
  /\ hs[s].pc \in {"calling", "done"}
  /\ hs[s].request.method = "tools/call"
  /\ hs[s].calls # <<>>
  /\ hs[s].calls[1].endpoint = EpTeam
  /\ Fmt(hs[s].tool_name) \in
       {"search_workspace", "get_workspace_hierarchy", "get_workspace_tasks"}

\* the i-th call of the request failed
FailedAt(l, i) == ~Remote(l.calls[i]).ok

\* C19: when a remote call of search_workspace, get_workspace_hierarchy or
\* unfiltered get_workspace_tasks fails, that call is the last one the
\* request issues (nothing after it, no second attempt at any endpoint) and
\* the request ends in the error response for that failure: no result, no
\* tool value, nothing of what was gathered before.
C19_FanOutFailsWhole ==
  \A s \in Slots :
    LET l == hs[s] IN
    FanOut(s) =>
      /\ \A i \in 1..Len(l.calls) :
           /\ FailedAt(l, i) => i = Len(l.calls)
           /\ \A j \in 1..Len(l.calls) :
                l.calls[i].endpoint = l.calls[j].endpoint => i = j
      /\ (Done(s) /\ FailedAt(l, Len(l.calls)) =>
           /\ IsRpcError(l.reply, ExcStr(Remote(LastCall(l)).exc))
           /\ IsNone(l.tool_result)
           /\ l.fault = Remote(LastCall(l)).exc)

\* a search had found lists and tasks in the first space when the tasks of
\* list L3 came back unreadable: the reply is the error, and only the error
C19_Witness ==
  \E s \in Slots :
    /\ FanOut(s) /\ Done(s)
    /\ hs[s].tool_name = Some("search_workspace")
    /\ Len(hs[s].calls) = 7
    /\ LastCall(hs[s]).endpoint = EpTasks("L3")
    /\ FailedAt(hs[s], 7)
    /\ Len(hs[s].acc.lists) >= 1
    /\ Len(hs[s].acc.tasks) >= 1
    /\ IsNone(hs[s].reply.result)
    /\ hs[s].reply.error[1].message = JSONDecodeError.msg

----------------------------------------------------------------------------
(* C20 *)

\* the keys the catalog declares required for tool n
Required(n) ==
  LET d == CHOOSE t \in {get_tools_list[i] : i \in 1..Len(get_tools_list)} :
             t.name = n
  IN IF "required" \in DOMAIN d.inputSchema
       THEN {d.inputSchema.required[i] : i \in 1..Len(d.inputSchema.required)}
       ELSE {}

\* the tools/call in slot s names a catalog tool, its arguments are an
\* object, and a key the catalog requires is not in it
LacksRequired(s) ==
  /\ IsToolsCall(s)
  /\ Fmt(hs[s].tool_name) \in ToolNames
  /\ PostedArguments(hs[s]).kind = "map"
  /\ Required(Fmt(hs[s].tool_name)) \ DOMAIN PostedArguments(hs[s]).val # {}

\* C20 as stated: for every tool of the catalog, a call that lacks a
\* required key ends in a missing-key fault reported with code -32603.
C20_MissingKeyIsKeyError ==
  \A s \in Slots :
    LacksRequired(s) =>
      /\ hs[s].fault.type = "KeyError"
      /\ IsRpcError(hs[s].reply, ExcStr(hs[s].fault))

\* C20 amended: create_task without list_id or name and update_task without
\* task_id raise a missing-key fault before any remote call, reported as an
\* RPC error with code -32603 whose message is the quoted key. The other
\* tools read their arguments with .get: the missing argument becomes None,
\* the remote call is issued with None in its place, no missing-key fault
\* ever arises, and the call is an error exactly when the tracker refuses
\* it (search_workspace fails on None.lower() at the first list it meets).
\* Every error is reported with code -32603.
C20_MissingKeyByTool ==
  \A s \in Slots :
    LET l == hs[s]
        n == Fmt(l.tool_name)
        a == PostedArguments(l).val
    IN
    LacksRequired(s) =>
      /\ (IsNone(l.reply.result) => IsRpcError(l.reply, ExcStr(l.fault)))
      /\ (n = "create_task" =>
            /\ l.calls = <<>>
            /\ l.fault = KeyError(IF "list_id" \in DOMAIN a
                                    THEN "name" ELSE "list_id")
            /\ IsRpcError(l.reply, ExcStr(l.fault)))
      /\ (n = "update_task" =>
            /\ l.calls = <<>>
            /\ l.fault = KeyError("task_id")
            /\ IsRpcError(l.reply, <<"'", "task_id", "'">>))
      /\ (n \in DirectTools =>
            /\ Len(l.calls) = 1
            /\ l.fault.type # "KeyError"
            /\ (IsSome(l.reply.result) <=> Remote(l.calls[1]).ok)
            /\ ("task_id" \in Required(n) \ DOMAIN a =>
                   l.calls[1].endpoint[2] = "None")
            /\ ("space_id" \in Required(n) \ DOMAIN a =>
                   l.calls[1].endpoint[2] = "None")
            /\ ("comment_text" \in Required(n) \ DOMAIN a =>
                   l.calls[1].body = [comment_text |-> None])
            /\ ("name" \in Required(n) \ DOMAIN a =>
                   l.calls[1].body = [name |-> None]))
      /\ (n = "search_workspace" =>
            /\ l.calls # <<>>
            /\ l.fault.type # "KeyError"
            /\ IsNone(l.reply.result)
            /\ (Healthy =>
                  /\ l.fault = AttributeError("NoneType", "lower")
                  /\ Len(l.calls) = 3))

\* get_task called without task_id: the tracker was asked for task/None and
\* its 404 came back as the error; no missing-key fault was raised
C20_Witness ==
  \E s \in Slots :
    /\ LacksRequired(s)
    /\ hs[s].tool_name = Some("get_task")
    /\ Endpoints(hs[s]) = << EpTask("None") >>
    /\ hs[s].fault.type = "HTTPError"
    /\ IsRpcError(hs[s].reply, ExcStr(hs[s].fault))

----------------------------------------------------------------------------
(* C21 *)

\* C21: provided every remote call eventually returns or fails, a request
\* that is waiting for the tracker eventually ends with an MCPResponse that
\* has exactly one of result and error; while it runs it goes from remote
\* call to remote call and to its response only (it is never dropped), and
\* once it has its response the response stays as it is until it is sent.
C21_EveryRequestCompletes ==
  /\ \A s \in Slots :
       (hs[s].pc = "calling") ~>
         (hs[s].pc = "done"
            /\ (IsSome(hs[s].reply.result) <=> IsNone(hs[s].reply.error)))
  /\ [][\A s \in Slots :
          /\ hs[s].pc = "calling" => hs'[s].pc \in {"calling", "done"}
          /\ hs[s].pc = "calling" /\ hs'[s].pc = "calling" =>
                Len(hs'[s].calls) = Len(hs[s].calls) + 1
          /\ hs[s].pc = "done" => hs'[s] = hs[s] \/ hs'[s] = Idle]_vars

\* a search that walked the whole first workspace, seven calls, and ended
C21_Witness ==
  \E s \in Slots :
    /\ Done(s)
    /\ hs[s].tool_name = Some("search_workspace")
    /\ Len(hs[s].calls) = 7
    /\ hs[s].spacesLeft = <<>>
    /\ IsSome(hs[s].reply.result)

----------------------------------------------------------------------------
(* C22 *)

\* the credential check of the health request in slot s got a user document
CredentialCheckSucceeded(l) ==
  /\ Remote(l.calls[1]).ok
  /\ "user" \in DOMAIN Remote(l.calls[1]).doc

----------------------------------------------------------------------------
(* C24 *)

\* slot s runs search_workspace or get_workspace_tasks without a list
WalksTasks(s) ==
  /\ FanOut(s)
  /\ Fmt(hs[s].tool_name) \in {"search_workspace", "get_workspace_tasks"}

\* C24: search_workspace and unfiltered get_workspace_tasks call, in this
\* order, team, the spaces of the first workspace, and per space its lists
\* followed by the tasks of each of its lists before the next space: when
\* all calls succeed that is 2 + S + L GET calls. One call is outstanding
\* at a time, the next is issued only when it returned, and no endpoint is
\* called twice.
C24_FanOutCallSequence ==
  \A s \in Slots :
    LET l == hs[s] IN
    WalksTasks(s) =>
      /\ (l.pc = "calling" => l.pending = LastCall(l))
      /\ (l.pc = "done" => l.pending = NoCall)
      /\ \A i \in 1..Len(l.calls) :
           /\ l.calls[i].verb = "GET"
           /\ (i < Len(l.calls) => Remote(l.calls[i]).ok)
           /\ \A j \in 1..Len(l.calls) :
                l.calls[i].endpoint = l.calls[j].endpoint => i = j
      /\ (world.teams # <<>> =>
           /\ Len(l.calls) <= Len(FullFanOut)
           /\ \A i \in 1..Len(l.calls) : l.calls[i].endpoint = FullFanOut[i])
      /\ (Done(s) /\ IsSome(l.tool_result) =>
           /\ Endpoints(l) = FullFanOut
           /\ Len(l.calls) = 2 + Len(FirstSpaces) + Len(FirstLists))

\* all tasks of a workspace with two spaces and three lists: seven calls
C24_Witness ==
  \E s \in Slots :
    /\ WalksTasks(s) /\ Done(s)
    /\ hs[s].tool_name = Some("get_workspace_tasks")
    /\ IsSome(hs[s].tool_result)
    /\ Endpoints(hs[s]) =
         << EpTeam, EpSpaces("T1"), EpLists("S1"), EpTasks("L1"),
            EpTasks("L2"), EpLists("S2"), EpTasks("L3") >>

----------------------------------------------------------------------------
(* C25 *)

\* slot s runs a tool that starts from the team call
WorkspaceLevel(s) ==
  /\ hs[s].pc \in {"calling", "done"}
  /\ hs[s].request.method = "tools/call"
  /\ hs[s].calls # <<>>
  /\ hs[s].calls[1].endpoint = EpTeam

\* the endpoints that belong to the first workspace
FirstWorkspaceEndpoints ==
  {EpTeam, EpSpaces(world.teams[1].id), EpMembers(world.teams[1].id)}
    \cup {EpLists(FirstSpaces[i].id) : i \in 1..Len(FirstSpaces)}
    \cup {EpTasks(FirstLists[i].id) : i \in 1..Len(FirstLists)}

\* C25: search_workspace, get_workspace_hierarchy, unfiltered
\* get_workspace_tasks and get_workspace_members call only endpoints of the
\* first workspace the team call listed, never one of another workspace;
\* when the team call lists no workspace, the request ends in the RPC error
\* for the failed first-element access and the team call is its only call.
C25_FirstWorkspaceOnly ==
  \A s \in Slots :
    LET l == hs[s] IN
    WorkspaceLevel(s) =>
      /\ Fmt(l.tool_name) \in
           {"search_workspace", "get_workspace_hierarchy",
            "get_workspace_tasks", "get_workspace_members"}
      /\ (world.teams # <<>> =>
            \A i \in 1..Len(l.calls) :
              l.calls[i].endpoint \in FirstWorkspaceEndpoints)
      /\ (world.teams = <<>> /\ Done(s) =>
            /\ Len(l.calls) = 1
            /\ l.fault = IndexError
            /\ IsRpcError(l.reply, <<"list index out of range">>))
      /\ (world.teams = <<>> => Len(l.calls) = 1)

\* the account has no workspace: the hierarchy call ended in the error after
\* its team call
C25_Witness ==
  \E s \in Slots :
    /\ WorkspaceLevel(s) /\ Done(s)
    /\ world.teams = <<>>
    /\ hs[s].tool_name = Some("get_workspace_hierarchy")
    /\ Len(hs[s].calls) = 1
    /\ IsRpcError(hs[s].reply, <<"list index out of range">>)

----------------------------------------------------------------------------
(* C26 *)

\* C26: while and after a tool runs, the arguments object the dispatcher
\* handed to execute_tool is as it was posted, for every tool and every
\* outcome, with one exception: update_task given a task_id has removed
\* task_id from that very object. A call that fails before any remote call
\* (unknown tool, create_task without list_id or name, update_task without
\* task_id) leaves it as posted.
C26_ArgumentsFrame ==
  \A s \in Slots :
    LET l == hs[s]  posted == PostedArguments(l) IN
    l.pc \in {"calling", "done"} /\ l.request.method = "tools/call" =>
      IF l.tool_name = Some("update_task") /\ posted.kind = "map"
           /\ "task_id" \in DOMAIN posted.val
        THEN /\ l.arguments.kind = "map"
             /\ DOMAIN l.arguments.val = (DOMAIN posted.val) \ {"task_id"}
             /\ \A key \in DOMAIN l.arguments.val :
                  l.arguments.val[key] = posted.val[key]
             /\ l.calls[1].body = l.arguments.val
        ELSE /\ l.arguments = posted
             /\ (l.calls = <<>> /\ Done(s) => IsSome(l.reply.error))

\* update_task ended and its arguments object no longer has task_id
C26_Witness ==
  \E s \in Slots :
    /\ Runs(s, "update_task") /\ Done(s)
    /\ PostedArguments(hs[s]).val =
         [task_id |-> "K2", name |-> "N", status |-> "done"]
    /\ hs[s].arguments.val = [name |-> "N", status |-> "done"]

----------------------------------------------------------------------------
(* C27 *)

\* the posted body with space_id and assignee taken out of its arguments
WithoutIgnoredFilters(body) ==
  [body EXCEPT !["params"].val["arguments"].val =
     DictWithout(DictWithout(@, "space_id"), "assignee")]

\* C27: get_workspace_tasks does not look at space_id and assignee: the
\* call issues the remote calls, returns the tasks and gets the reply that
\* the same call without these two filters issues, returns and gets.
C27_IgnoredFilters ==
  \A s \in Slots :
    LET l == hs[s] IN
    Runs(s, "get_workspace_tasks") /\ Done(s)
      /\ FieldKind(l.request.params[1], "arguments") = "map" =>
        LET other == HandledAlone(WithoutIgnoredFilters(l.body), StartupApi) IN
        /\ l.calls = other.calls
        /\ l.tool_result = other.tool_result
        /\ l.reply = other.reply

\* asked for the tasks of space S2 assigned to U1, the tool returned the
\* tasks of every space
C27_Witness ==
  \E s \in Slots :
    /\ Returned(s, "get_workspace_tasks")
    /\ hs[s].arguments.val = [space_id |-> "S2", assignee |-> "U1"]
    /\ Len(hs[s].tool_result[1]) = 3
    /\ hs[s].tool_result[1][1].id = "K1"
    /\ \E i \in 1..Len(hs[s].calls) : hs[s].calls[i].endpoint = EpLists("S1")

----------------------------------------------------------------------------
(* C23 *)

\* the environment has no value, or an empty one, under the name
Missing(name) == name \notin DOMAIN environ \/ environ[name] = ""

\* C23: started without the tracker token, the server stops at startup: it
\* never takes a request, so no request of its is answered with an error
\* and no remote call is issued. Started without the tracker token or
\* without the LLM key, the natural-language program stops in main() before
\* it builds its client: no remote call and no prompt or menu.
C23_MissingCredentialStopsAtStartup ==
  /\ (cli.prog = "none" /\ Missing("CLICKUP_API_TOKEN") =>
        /\ active = {}
        /\ served = 0
        /\ ~errSeen
        /\ \A s \in Slots : hs[s] = Idle)
  /\ (cli.prog = "agent" /\ cli.pc # "start"
        /\ (Missing("CLICKUP_API_TOKEN") \/ Missing("OPENAI_API_KEY")) =>
        /\ cli.pc = "exited"
        /\ ~cli.called /\ cli.calls = <<>>
        /\ ~cli.asked
        /\ IsNone(cli.api))

\* the natural-language program was started with the tracker token but
\* without the LLM key, and has stopped
C23_Witness ==
  /\ cli.prog = "agent"
  /\ cli.pc = "exited"
  /\ ~Missing("CLICKUP_API_TOKEN")
  /\ "OPENAI_API_KEY" \notin DOMAIN environ
  /\ ~cli.called

----------------------------------------------------------------------------
(* C28 *)

\* the answer is "yes" in some mix of upper and lower case
IsYes(text) ==
  /\ Len(text) = 3
  /\ text[1] \in {"y", "Y"} /\ text[2] \in {"e", "E"} /\ text[3] \in {"s", "S"}

\* the DELETE calls among the calls of the present command
Deletes == {i \in 1..Len(cli.calls) : cli.calls[i].verb = "DELETE"}

\* C28: in the task menus of clickup_app.py and main.py a DELETE is the
\* second and last call of its command: the first fetched the tasks of the
\* list, the DELETE names the task selected from those, and the answer to
\* the confirmation was "yes" in any case of letters. After it, failed or
\* not, the program is back at the task menu. No other command and no other
\* answer issues a DELETE.
C28_DeleteOnlyAfterSelectAndYes ==
  Deletes # {} =>
    /\ cli.prog \in {"app", "main"}
    /\ Len(cli.calls) = 2
    /\ cli.calls[1].verb = "GET"
    /\ cli.calls[1].endpoint = EpTasks(cli.lst[1])
    /\ Remote(cli.calls[1]).ok
    /\ IsSome(cli.task)
    /\ \E k \in 1..Len(Remote(cli.calls[1]).doc.tasks) :
         Remote(cli.calls[1]).doc.tasks[k] = cli.task[1]
    /\ cli.sel.ret = cli.task
    /\ cli.calls[2].verb = "DELETE"
    /\ cli.calls[2].endpoint = EpTask(cli.task[1].id)
    /\ Len(cli.input) = 1 /\ IsYes(cli.input[1])
    /\ cli.pc = "menu"
    /\ cli.raised = NoExc

\* the DELETE of the selected task failed and the task menu is shown again
C28_Witness ==
  /\ Deletes = {2}
  /\ ~Remote(cli.calls[2]).ok
  /\ cli.input = << <<"Y", "e", "s">> >>
  /\ cli.pc = "menu"
  /\ cli.out = "Error"

----------------------------------------------------------------------------
(* C29 *)

\* the integer a line typed at the selection prompt denotes, if any
IntegerEntered(text) ==
  CASE text \in {<<"0">>, <<"0", "0">>} -> Some(0)
    [] text = <<"1">> -> Some(1)
    [] text \in {<<"2">>, <<" ", "2", " ">>, <<"+", "2">>} -> Some(2)
    [] text = <<"3">> -> Some(3)
    [] text = <<"5">> -> Some(5)
    [] text = <<"-", "1">> -> Some(0 - 1)
    [] OTHER -> None

\* select_from_list returned None or an element of items; None without a
\* prompt exactly when items is empty
SelectReturnsOk ==
  \A i \in 1..Len(cli.returns) :
    LET r == cli.returns[i] IN
    /\ (r.items = <<>> => ~r.prompted /\ IsNone(r.ret))
    /\ (r.items # <<>> => r.prompted)
    /\ (IsNone(r.ret) \/ \E k \in 1..Len(r.items) : r.ret = Some(r.items[k]))

\* a line typed at the prompt: 0 returns None, k in 1..len(items) returns
\* items[k-1], anything else leaves the function at its prompt
SelectStep ==
  cli.pc = "select" =>
    LET text == IF cli'.returns # <<>> THEN cli'.returns[1].entered[1]
                ELSE cli'.input[1]
        k == IntegerEntered(text)
        items == cli.sel.items
    IN
    /\ cli'.raised = NoExc
    /\ IF IsSome(k) /\ k[1] = 0
         THEN /\ cli'.returns # <<>>
              /\ cli'.returns[1].items = items
              /\ IsNone(cli'.returns[1].ret)
       ELSE IF IsSome(k) /\ 1 <= k[1] /\ k[1] <= Len(items)
         THEN /\ cli'.returns # <<>>
              /\ cli'.returns[1].items = items
              /\ cli'.returns[1].ret = Some(items[k[1]])
       ELSE /\ cli'.pc = "select"
            /\ cli'.sel = cli.sel
            /\ cli'.input = << text >>
            /\ cli'.returns = <<>>
            /\ cli'.calls = cli.calls

\* C29: select_from_list returns None without a prompt when items is empty;
\* at its prompt, 0 makes it return None, an integer k with
\* 1 <= k <= len(items) makes it return items[k-1], and every other line,
\* numeric or not, leaves it at the prompt without an exception. It returns
\* nothing but None or an element of items.
C29_SelectFromList == [] SelectReturnsOk /\ [][SelectStep]_vars

\* " 2 " was typed at a prompt over two items and the second was returned
C29_Witness ==
  /\ cli.returns # <<>>
  /\ cli.returns[1].entered = << <<" ", "2", " ">> >>
  /\ Len(cli.returns[1].items) = 2
  /\ cli.returns[1].ret = Some(cli.returns[1].items[2])

----------------------------------------------------------------------------
(* C30 *)

BlankText(t) == \A i \in 1..Len(t) : t[i] = " "

\* the lines that name a priority, a date, a time
PriorityEntered(t) == t \in {<<"2">>, <<"0", "4">>}
DateEntered(t) ==
  t \in { <<"2", "0", "2", "5", "-", "0", "1", "-", "1", "5">>, <<"0", "0", "0", "1", "-", "0", "1", "-", "0", "1">>, <<"2", "0", "2", "4", "-", "2", "-", "2", "9">> }
ClearEntered(t) == t \in { <<"c", "l", "e", "a", "r">>, <<"C", "l", "e", "a", "r">> }
TimeEntered(t) == t \in { <<"1", "0", ":", "3", "0">> }

\* the date prompt and its time prompt leave the date as it is
NoDate(date, time) ==
  \/ BlankText(date)
  \/ /\ ~ClearEntered(date)
     /\ ~DateEntered(date) \/ ~(BlankText(time) \/ TimeEntered(time))

\* every line entered at the prompts of the operation is blank or invalid
AllBlankOrInvalid(prog, fn, in) ==
  /\ BlankText(in[1]) /\ BlankText(in[2])
  /\ CASE fn = "update_existing_task" ->
            /\ BlankText(in[3])
            /\ (prog = "main" => NoDate(in[4], in[5]) /\ NoDate(in[6], in[7]))
       [] fn = "update_list" -> BlankText(in[3]) \/ ~PriorityEntered(in[3])
       [] OTHER -> TRUE

\* the PUT calls among the calls of the present command
Puts == {i \in 1..Len(cli.calls) : cli.calls[i].verb = "PUT"}

\* C30: update_existing_task, update_list, update_goal and edit_page, given
\* only blank or invalid lines, compute an empty update body, issue no PUT
\* and return None; smart_task_update does so when the parsed update is the
\* empty object.
C30_EmptyUpdateIssuesNoPut ==
  /\ ((/\ cli.fn \in {"update_existing_task", "update_list", "update_goal",
                      "edit_page"}
       /\ Len(cli.input) = NumInputs(cli.prog, cli.fn)
       /\ AllBlankOrInvalid(cli.prog, cli.fn, cli.input)) =>
        /\ Puts = {}
        /\ cli.raised = NoExc
        /\ IsNone(cli.ret)
        /\ IsSome(cli.update_data)
        /\ DOMAIN cli.update_data[1].val = {}
        /\ cli.pc = cli.menu)
  /\ ((/\ cli.fn = "smart_task_update"
       /\ IsSome(cli.update_data)
       /\ cli.update_data[1].kind = "map"
       /\ DOMAIN cli.update_data[1].val = {}) =>
        /\ Puts = {}
        /\ IsNone(cli.ret)
        /\ cli.pc = cli.menu)

====
